---- MODULE Spec2Model ----
(***************************************************************************)
(* Model of the show-finder classification and extraction core:            *)
(*   text_parser.py   ShowTextParser  (classifier, date/location/time)     *)
(*   ocr_extractor.py OCRExtractor    (image text recovery)                *)
(*   show_processor.py ShowProcessor.process_posts (merge, filter, emit)   *)
(*   links_manager.py LinksManager    (saved profile links and their file) *)
(*   instagram_scraper.py InstagramScraper.get_profile_posts (retries)     *)
(*   calendar_ui.py   CalendarUI      (month navigation)                   *)
(* Texts are sequences of characters (one-character strings), so that      *)
(* substring tests and regular expressions are computed as Python does.    *)
(***************************************************************************)
EXTENDS Integers, Sequences, FiniteSets, TLC

VARIABLES
  pc,                  \* position of the caller of process_posts
  posts,               \* the posts returned by the scraper, newest first
  nickname_map,        \* the nickname_map argument of process_posts
  idx,                 \* position of the for loop over posts (1-based)
  shows,               \* the list process_posts builds and returns
  ocr_calls,           \* calls made to extract_show_info_from_image
  files,               \* temporary image files that exist on disk
  tesseract_available, \* OCRExtractor.tesseract_available
  text,                \* text argument of a direct parser call
  result,              \* value that call returned
  ref_timestamp,       \* post_timestamp argument of a direct parser call
  now_year,            \* datetime.now().year, the wall clock
  parsers,             \* the ShowTextParser instances constructed so far
  parse_calls,         \* the parse_show_info calls made on them
  links,               \* LinksManager.links
  storage,             \* content of the LinksManager storage file
  last_call,           \* the last LinksManager call and what it returned
  profile_feed,        \* what Instagram holds for the profile being fetched
  max_posts,           \* max_posts argument of get_profile_posts
  attempt,             \* loop variable of the retry loop (0-based)
  cursor,              \* position of the iteration over profile.get_posts()
  attempt_log,         \* how each fetch attempt ended
  current_date,        \* CalendarUI.current_date
  nav_log              \* the last calendar navigation calls

\* the variables only the direct parser calls use
parserVars == <<ref_timestamp, now_year, parsers, parse_calls>>

\* the variables of the LinksManager
linksVars == <<links, storage, last_call>>

\* the variables of InstagramScraper.get_profile_posts (with pc, posts and
\* files)
scraperVars == <<profile_feed, max_posts, attempt, cursor, attempt_log>>

\* the variables of the CalendarUI
calendarVars == <<current_date, nav_log>>

\* the variables of the components around the processing core
appVars == <<linksVars, scraperVars, calendarVars>>

vars == <<pc, posts, nickname_map, idx, shows, ocr_calls, files,
          tesseract_available, text, result, parserVars, appVars>>

(***************************************************************************)
(* Characters and strings                                                  *)
(***************************************************************************)
\* Python None, for values that are otherwise character sequences.
None == <<"None">>

\* The empty str.
EmptyStr == <<>>

UpperToLower ==
  ("A" :> "a")
    @@ ("B" :> "b")
    @@ ("C" :> "c")
    @@ ("D" :> "d")
    @@ ("E" :> "e")
    @@ ("F" :> "f")
    @@ ("G" :> "g")
    @@ ("H" :> "h")
    @@ ("I" :> "i")
    @@ ("J" :> "j")
    @@ ("K" :> "k")
    @@ ("L" :> "l")
    @@ ("M" :> "m")
    @@ ("N" :> "n")
    @@ ("O" :> "o")
    @@ ("P" :> "p")
    @@ ("Q" :> "q")
    @@ ("R" :> "r")
    @@ ("S" :> "s")
    @@ ("T" :> "t")
    @@ ("U" :> "u")
    @@ ("V" :> "v")
    @@ ("W" :> "w")
    @@ ("X" :> "x")
    @@ ("Y" :> "y")
    @@ ("Z" :> "z")

LowerLetters ==
  {"a", "b", "c", "d", "e", "f", "g", "h", "i", "j", "k", "l", "m",
   "n", "o", "p", "q", "r", "s", "t", "u", "v", "w", "x", "y", "z"}

Digits == {"0", "1", "2", "3", "4", "5", "6", "7", "8", "9"}

Whitespace == {" ", "\n", "\t"}

\* str.lower() of one character
Lower(c) == IF c \in DOMAIN UpperToLower THEN UpperToLower[c] ELSE c

\* str.lower()
ToLower(s) == [i \in 1..Len(s) |-> Lower(s[i])]

\* Python truthiness of an Optional[str]
Truthy(s) == s # None /\ s # EmptyStr

\* F applied to the value of e (e is evaluated once, as an assignment to a
\* local variable is)
Bind(e, F(_)) == CHOOSE r \in { F(x) : x \in {e} } : TRUE

\* needle in hay
Contains(hay, needle) ==
  LET In(h) == \E i \in 1..(Len(h) - Len(needle) + 1) :
                 \A k \in 1..Len(needle) : h[i + k - 1] = needle[k]
  IN  Bind(hay, In)

\* s[a:b] with 1-based inclusive start a and exclusive end b
Slice(s, a, b) == [i \in 1..(b - a) |-> s[a + i - 1]]

RECURSIVE LStrip(_)
LStrip(s) ==
  IF s # <<>> /\ Head(s) \in Whitespace
    THEN Bind(Tail(s), LAMBDA r : LStrip(r)) ELSE s

RECURSIVE RStrip(_)
RStrip(s) ==
  IF s # <<>> /\ s[Len(s)] \in Whitespace
    THEN Bind(Slice(s, 1, Len(s)), LAMBDA r : RStrip(r)) ELSE s

\* str.strip()
Strip(s) == Bind(s, LAMBDA v : Bind(LStrip(v), LAMBDA l : RStrip(l)))

(***************************************************************************)
(* Regular expressions, matched as Python's re does with re.IGNORECASE:    *)
(* a backtracking matcher whose alternatives are tried left to right and   *)
(* whose quantifiers are greedy.  Ends(re, s, i) lists, in the order the   *)
(* matcher tries them, the positions at which a match of re that starts    *)
(* at position i of s can end.                                             *)
(***************************************************************************)
Lit(s) == [t |-> "lit", s |-> s]
Set(S) == [t |-> "set", s |-> S]
Cat(rs) == [t |-> "seq", rs |-> rs]
Alt(rs) == [t |-> "alt", rs |-> rs]
Rep(r, lo, hi) == [t |-> "rep", r |-> r, lo |-> lo, hi |-> hi]
Star(r) == [t |-> "rep", r |-> r, lo |-> 0, hi |-> -1]
Plus(r) == [t |-> "rep", r |-> r, lo |-> 1, hi |-> -1]
Opt(r) == [t |-> "rep", r |-> r, lo |-> 0, hi |-> 1]
WB == [t |-> "wb"]

\* \w
IsWordChar(c) == Lower(c) \in (LowerLetters \cup Digits \cup {"_", "e_acute"})

IsWordAt(s, i) == i >= 1 /\ i <= Len(s) /\ IsWordChar(s[i])

Max0(n) == IF n > 0 THEN n - 1 ELSE n

\* the least member of a non-empty set of positions
MinOf(S) == CHOOSE p \in S : \A q \in S : p <= q

\* a quantified character class, [..]{lo,hi}: the class matches one character
\* at a time, so the greedy matcher takes the longest run of class characters
\* (at most hi of them when hi is bounded) and gives characters back one by
\* one down to lo
ClassRunEnds(S, lo, hi, s, i) ==
  LET room == Len(s) - i + 1
      cap == IF hi < 0 \/ hi > room THEN room ELSE hi
      stops == IF cap < 1 \/ Lower(s[i]) \notin S THEN {0}
               ELSE { k \in 1..(cap - 1) : Lower(s[i + k]) \notin S }
      Run(st) == IF st = {} THEN cap ELSE MinOf(st)
      least == IF lo > 0 THEN lo ELSE 0
      EndsOf(n) == [j \in 1..(n - least + 1) |-> i + n - j + 1]
  IN  Bind(Bind(stops, Run), EndsOf)

RECURSIVE Ends(_, _, _)
RECURSIVE SeqEnds(_, _, _, _)
RECURSIVE SeqEndsFrom(_, _, _, _, _)
RECURSIVE AltEnds(_, _, _, _)
RECURSIVE RepEnds(_, _, _, _, _)
RECURSIVE RepEndsFrom(_, _, _, _, _, _, _)

Ends(re, s, i) ==
  CASE re.t = "lit" ->
         IF /\ i + Len(re.s) - 1 <= Len(s)
            /\ \A k \in 1..Len(re.s) : Lower(s[i + k - 1]) = Lower(re.s[k])
           THEN <<i + Len(re.s)>> ELSE <<>>
    [] re.t = "set" ->
         IF i <= Len(s) /\ Lower(s[i]) \in re.s THEN <<i + 1>> ELSE <<>>
    [] re.t = "wb" ->
         IF IsWordAt(s, i - 1) # IsWordAt(s, i) THEN <<i>> ELSE <<>>
    [] re.t = "seq" -> SeqEnds(re.rs, 1, s, i)
    [] re.t = "alt" -> AltEnds(re.rs, 1, s, i)
    [] re.t = "rep" -> RepEnds(re.r, re.lo, re.hi, s, i)

SeqEnds(rs, k, s, i) ==
  IF k > Len(rs) THEN <<i>>
  ELSE Bind(Ends(rs[k], s, i), LAMBDA es : SeqEndsFrom(rs, k, s, es, 1))

SeqEndsFrom(rs, k, s, es, j) ==
  IF j > Len(es) THEN <<>>
  ELSE SeqEnds(rs, k + 1, s, es[j]) \o SeqEndsFrom(rs, k, s, es, j + 1)

AltEnds(rs, k, s, i) ==
  IF k > Len(rs) THEN <<>>
  ELSE Ends(rs[k], s, i) \o AltEnds(rs, k + 1, s, i)

RepEnds(r, lo, hi, s, i) ==
  IF r.t = "set" THEN ClassRunEnds(r.s, lo, hi, s, i)
  ELSE (IF hi = 0 THEN <<>>
        ELSE Bind(Ends(r, s, i),
                  LAMBDA es : RepEndsFrom(r, lo, hi, s, i, es, 1)))
         \o (IF lo <= 0 THEN <<i>> ELSE <<>>)

RepEndsFrom(r, lo, hi, s, i, es, j) ==
  IF j > Len(es) THEN <<>>
  ELSE (IF es[j] > i THEN RepEnds(r, lo - 1, Max0(hi), s, es[j]) ELSE <<>>)
         \o RepEndsFrom(r, lo, hi, s, i, es, j + 1)

NoMatch == [start |-> 0, end |-> 0]

\* pattern.search(s, pos): the leftmost match starting at pos or later, with
\* the end the matcher finds first
Search(re, s, pos) ==
  LET First(starts) ==
        IF starts = {} THEN NoMatch
        ELSE LET At(p) == [start |-> p, end |-> Ends(re, s, p)[1]]
             IN  Bind(MinOf(starts), At)
  IN  Bind({ p \in pos..(Len(s) + 1) : Ends(re, s, p) # <<>> }, First)

\* re.search(pattern, s, re.IGNORECASE) is not None
Matches(re, s) == Search(re, s, 1) # NoMatch

\* list(re.finditer(pattern, s, re.IGNORECASE)): successive non-overlapping
\* matches, left to right
RECURSIVE FindIterFrom(_, _, _)
FindIterFrom(re, s, pos) ==
  LET Rest(m) ==
        IF m = NoMatch THEN <<>>
        ELSE <<m>> \o FindIterFrom(re, s,
                        IF m.end = m.start THEN m.end + 1 ELSE m.end)
  IN  Bind(Search(re, s, pos), Rest)

FindIter(re, s) == FindIterFrom(re, s, 1)

\* match.group(0)
Group0(s, m) == Slice(s, m.start, m.end)

(***************************************************************************)
(* ShowTextParser: class constants                                         *)
(***************************************************************************)
SHOW_KEYWORDS ==
  << <<"s", "h", "o", "w">>,
     <<"c", "o", "n", "c", "e", "r", "t">>,
     <<"g", "i", "g">>,
     <<"p", "e", "r", "f", "o", "r", "m", "a", "n", "c", "e">>,
     <<"e", "v", "e", "n", "t">>,
     <<"l", "i", "v", "e">>,
     <<"t", "i", "c", "k", "e", "t", "s">>,
     <<"d", "o", "o", "r", "s">>,
     <<"o", "p", "e", "n", "i", "n", "g">>,
     <<"h", "e", "a", "d", "l", "i", "n", "e", "r">>,
     <<"s", "u", "p", "p", "o", "r", "t">>,
     <<"v", "e", "n", "u", "e">>,
     <<"p", "l", "a", "y", "i", "n", "g">>,
     <<"p", "e", "r", "f", "o", "r", "m", "i", "n", "g">>,
     <<"o", "n", " ", "s", "t", "a", "g", "e">>,
     <<"t", "o", "u", "r">>,
     <<"t", "o", "n", "i", "g", "h", "t">>,
     <<"t", "h", "i", "s", " ", "w", "e", "e", "k">>,
     <<"c", "o", "m", "i", "n", "g">>,
     <<"u", "p", "c", "o", "m", "i", "n", "g">> >>

EVENT_WORDS ==
  << <<"t", "i", "c", "k", "e", "t">>,
     <<"d", "o", "o", "r">>,
     <<"v", "e", "n", "u", "e">>,
     <<"s", "t", "a", "g", "e">>,
     <<"l", "i", "v", "e">> >>

Digit == Set(Digits)

WS == Set(Whitespace)

\* (Jan|January|Feb|...|Dec|December)
MonthAlt ==
  Alt(<< Lit(<<"J", "a", "n">>),
          Lit(<<"J", "a", "n", "u", "a", "r", "y">>),
          Lit(<<"F", "e", "b">>),
          Lit(<<"F", "e", "b", "r", "u", "a", "r", "y">>),
          Lit(<<"M", "a", "r">>),
          Lit(<<"M", "a", "r", "c", "h">>),
          Lit(<<"A", "p", "r">>),
          Lit(<<"A", "p", "r", "i", "l">>),
          Lit(<<"M", "a", "y">>),
          Lit(<<"J", "u", "n">>),
          Lit(<<"J", "u", "n", "e">>),
          Lit(<<"J", "u", "l">>),
          Lit(<<"J", "u", "l", "y">>),
          Lit(<<"A", "u", "g">>),
          Lit(<<"A", "u", "g", "u", "s", "t">>),
          Lit(<<"S", "e", "p">>),
          Lit(<<"S", "e", "p", "t", "e", "m", "b", "e", "r">>),
          Lit(<<"O", "c", "t">>),
          Lit(<<"O", "c", "t", "o", "b", "e", "r">>),
          Lit(<<"N", "o", "v">>),
          Lit(<<"N", "o", "v", "e", "m", "b", "e", "r">>),
          Lit(<<"D", "e", "c">>),
          Lit(<<"D", "e", "c", "e", "m", "b", "e", "r">>) >>)

\* (Mon|Monday|...|Sun|Sunday)
WeekdayAlt ==
  Alt(<< Lit(<<"M", "o", "n">>),
          Lit(<<"M", "o", "n", "d", "a", "y">>),
          Lit(<<"T", "u", "e">>),
          Lit(<<"T", "u", "e", "s", "d", "a", "y">>),
          Lit(<<"W", "e", "d">>),
          Lit(<<"W", "e", "d", "n", "e", "s", "d", "a", "y">>),
          Lit(<<"T", "h", "u">>),
          Lit(<<"T", "h", "u", "r", "s", "d", "a", "y">>),
          Lit(<<"F", "r", "i">>),
          Lit(<<"F", "r", "i", "d", "a", "y">>),
          Lit(<<"S", "a", "t">>),
          Lit(<<"S", "a", "t", "u", "r", "d", "a", "y">>),
          Lit(<<"S", "u", "n">>),
          Lit(<<"S", "u", "n", "d", "a", "y">>) >>)

\* (?:st|nd|rd|th)?
DaySuffix ==
  Opt(Alt(<<Lit(<<"s", "t">>), Lit(<<"n", "d">>), Lit(<<"r", "d">>),
            Lit(<<"t", "h">>)>>))

DATE_PATTERNS ==
  << Cat(<<WB, MonthAlt, Plus(WS), Rep(Digit, 1, 2), DaySuffix,
           Opt(Cat(<<Lit(<<",">>), Star(WS), Rep(Digit, 4, 4)>>)), WB>>),
     Cat(<<WB, Rep(Digit, 1, 2), Set({"/", "-"}), Rep(Digit, 1, 2),
           Opt(Cat(<<Set({"/", "-"}), Rep(Digit, 2, 4)>>)), WB>>),
     Cat(<<WB, WeekdayAlt, Plus(WS),
           Opt(Cat(<<Lit(<<"t", "h", "e">>), Plus(WS)>>)),
           Rep(Digit, 1, 2), DaySuffix, WB>>),
     Cat(<<WB, Alt(<<Lit(<<"o", "n">>), Lit(<<"a", "t">>),
                     Lit(<<"t", "h", "i", "s">>), Lit(<<"n", "e", "x", "t">>)>>),
           Plus(WS), WeekdayAlt, WB>>),
     Cat(<<WB, Alt(<<Lit(<<"t", "o", "n", "i", "g", "h", "t">>),
                     Lit(<<"t", "o", "m", "o", "r", "r", "o", "w">>),
                     Lit(<<"t", "o", "d", "a", "y">>)>>), WB>>),
     Cat(<<WB, Rep(Digit, 1, 2), DaySuffix, Plus(WS),
           Opt(Cat(<<Lit(<<"o", "f">>), Plus(WS)>>)), MonthAlt, WB>>) >>

\* (?:AM|PM|am|pm)
AmPm ==
  Alt(<<Lit(<<"A", "M">>), Lit(<<"P", "M">>), Lit(<<"a", "m">>),
        Lit(<<"p", "m">>)>>)

TIME_PATTERNS ==
  << Cat(<<WB, Rep(Digit, 1, 2), Lit(<<":">>), Rep(Digit, 2, 2), Star(WS),
           AmPm, WB>>),
     Cat(<<WB, Rep(Digit, 1, 2), Lit(<<":">>), Rep(Digit, 2, 2), WB>>),
     Cat(<<WB, Alt(<<Lit(<<"d", "o", "o", "r", "s">>),
                     Lit(<<"s", "h", "o", "w">>),
                     Cat(<<Lit(<<"s", "t", "a", "r", "t">>),
                           Opt(Lit(<<"s">>))>>)>>),
           Plus(WS), Opt(Alt(<<Lit(<<"a", "t">>), Lit(<<"@">>)>>)), Star(WS),
           Rep(Digit, 1, 2), Opt(Cat(<<Lit(<<":">>), Rep(Digit, 2, 2)>>)),
           Star(WS), Opt(AmPm), WB>>) >>

(***************************************************************************)
(* ShowTextParser.is_show_post                                             *)
(***************************************************************************)
\* the number of places of txt at which needle occurs
Occurrences(hay, needle) ==
  LET In(h) ==
        Cardinality({ i \in 1..(Len(h) - Len(needle) + 1) :
                        \A k \in 1..Len(needle) : h[i + k - 1] = needle[k] })
  IN  Bind(hay, In)

RECURSIVE SumOccurrences(_, _)
SumOccurrences(txt_lower, k) ==
  IF k > Len(SHOW_KEYWORDS) THEN 0
  ELSE Occurrences(txt_lower, SHOW_KEYWORDS[k])
         + SumOccurrences(txt_lower, k + 1)

\* variant of keyword_count: occurrences counted instead of keywords
keyword_count_occurrences(txt) ==
  Bind(ToLower(txt), LAMBDA l : SumOccurrences(l, 1))

\* sum(1 for keyword in self.SHOW_KEYWORDS if keyword in text_lower)
keyword_count(txt) ==
  Cardinality({k \in 1..Len(SHOW_KEYWORDS) :
                 Contains(ToLower(txt), SHOW_KEYWORDS[k])})

\* any(re.search(pattern, text, re.IGNORECASE) for pattern in DATE_PATTERNS)
has_date(txt) ==
  \E p \in 1..Len(DATE_PATTERNS) : Matches(DATE_PATTERNS[p], txt)

\* any(word in text_lower for word in ['ticket', 'door', 'venue', ...])
has_event_word(txt) ==
  \E w \in 1..Len(EVENT_WORDS) : Contains(ToLower(txt), EVENT_WORDS[w])

\* variant of is_show_post: the keyword rule needs 3 keywords
is_show_post_three(txt) ==
  IF ~Truthy(txt) THEN FALSE
  ELSE IF keyword_count(txt) >= 3 THEN TRUE
  ELSE has_date(txt) /\ has_event_word(txt)

\* variant of is_show_post: a date or an event word alone is enough
is_show_post_either(txt) ==
  IF ~Truthy(txt) THEN FALSE
  ELSE IF keyword_count(txt) >= 2 THEN TRUE
  ELSE has_date(txt) \/ has_event_word(txt)

\* is_show_post(text)
is_show_post(txt) ==
  IF ~Truthy(txt) THEN FALSE
  ELSE IF keyword_count(txt) >= 2 THEN TRUE
  ELSE has_date(txt) /\ has_event_word(txt)

(***************************************************************************)
(* datetime: a naive datetime is [year, month, day, hour]; minutes and     *)
(* seconds are carried along unchanged by every operation used here and    *)
(* are left out.                                                           *)
(***************************************************************************)
\* Optional[datetime] None
NoDate == [year |-> 0, month |-> 0, day |-> 0, hour |-> 0]

IsLeap(y) == (y % 4 = 0 /\ y % 100 # 0) \/ y % 400 = 0

\* calendar.monthrange(y, m)[1]
DaysInMonth(y, m) ==
  IF m = 2 THEN (IF IsLeap(y) THEN 29 ELSE 28)
  ELSE IF m \in {4, 6, 9, 11} THEN 30 ELSE 31

\* days from 0001-01-01 to the first day of year y
DaysBeforeYear(y) ==
  LET p == y - 1
  IN  (p * 365) + (p \div 4) - (p \div 100) + (p \div 400)

RECURSIVE DaysBeforeMonth(_, _)
DaysBeforeMonth(y, m) ==
  IF m <= 1 THEN 0 ELSE DaysBeforeMonth(y, m - 1) + DaysInMonth(y, m - 1)

\* date.toordinal()
Ordinal(dt) == DaysBeforeYear(dt.year) + DaysBeforeMonth(dt.year, dt.month) + dt.day

\* date.weekday(): Monday is 0
Weekday(dt) == (Ordinal(dt) + 6) % 7

\* dt + timedelta(days=1)
NextDay(dt) ==
  IF dt.day < DaysInMonth(dt.year, dt.month)
    THEN [dt EXCEPT !.day = dt.day + 1]
  ELSE IF dt.month < 12
    THEN [dt EXCEPT !.month = dt.month + 1, !.day = 1]
  ELSE [dt EXCEPT !.year = dt.year + 1, !.month = 1, !.day = 1]

\* dt + timedelta(days=n)
RECURSIVE AddDays(_, _)
AddDays(dt, n) ==
  IF n <= 0 THEN dt ELSE Bind(NextDay(dt), LAMBDA nx : AddDays(nx, n - 1))

\* a >= b for datetimes
DtGeq(a, b) ==
  \/ a.year > b.year
  \/ a.year = b.year /\ a.month > b.month
  \/ a.year = b.year /\ a.month = b.month /\ a.day > b.day
  \/ a.year = b.year /\ a.month = b.month /\ a.day = b.day /\ a.hour >= b.hour

\* (a - b).days for datetimes; floor division as timedelta normalises
DeltaDays(a, b) ==
  LET hours == ((Ordinal(a) - Ordinal(b)) * 24) + (a.hour - b.hour)
  IN  IF hours >= 0 THEN hours \div 24 ELSE -((-hours + 23) \div 24)

\* int(s) for a string of digits
DigitValue ==
  ("0" :> 0) @@ ("1" :> 1) @@ ("2" :> 2) @@ ("3" :> 3) @@ ("4" :> 4)
    @@ ("5" :> 5) @@ ("6" :> 6) @@ ("7" :> 7) @@ ("8" :> 8) @@ ("9" :> 9)

RECURSIVE ToIntUpTo(_, _)
ToIntUpTo(s, n) ==
  IF n = 0 THEN 0 ELSE (10 * ToIntUpTo(s, n - 1)) + DigitValue[s[n]]

ToInt(s) == ToIntUpTo(s, Len(s))

DigitChar == <<"0", "1", "2", "3", "4", "5", "6", "7", "8", "9">>

\* '%02d' % n and '%04d' % n
Pad2(n) == <<DigitChar[((n \div 10) % 10) + 1], DigitChar[(n % 10) + 1]>>

Pad4(n) ==
  <<DigitChar[((n \div 1000) % 10) + 1], DigitChar[((n \div 100) % 10) + 1]>>
    \o Pad2(n)

\* dt.strftime('%Y-%m-%d')
strftime(dt) == Pad4(dt.year) \o <<"-">> \o Pad2(dt.month) \o <<"-">> \o Pad2(dt.day)

(***************************************************************************)
(* dateutil.parser.parse(date_str, default=post_timestamp), as called by   *)
(* extract_date, on the strings the date patterns can match (letters,      *)
(* digits, white space, "," "/" and "-").  The result is a datetime, or    *)
(* ParseError when dateutil raises.                                        *)
(***************************************************************************)
ParseError == [year |-> -1, month |-> -1, day |-> -1, hour |-> -1]

\* the year dateutil's parserinfo reads from the clock when it is built;
\* two-digit years are resolved around it
ClockYear == 2024

IsLetter(c) == Lower(c) \in LowerLetters

\* end (exclusive) of the run of characters of class IsLetter / Digits at i
RECURSIVE LetterRunEnd(_, _)
LetterRunEnd(s, i) ==
  IF i <= Len(s) /\ IsLetter(s[i]) THEN LetterRunEnd(s, i + 1) ELSE i

RECURSIVE DigitRunEnd(_, _)
DigitRunEnd(s, i) ==
  IF i <= Len(s) /\ s[i] \in Digits THEN DigitRunEnd(s, i + 1) ELSE i

\* _timelex: words, numbers, one " " per white-space character, and every
\* other character alone.  A number of two or more digits directly followed
\* by "," and more digits is read as one decimal number, whose integer part
\* is what the parser keeps.
RECURSIVE Tokenize(_, _)
Tokenize(s, i) ==
  IF i > Len(s) THEN <<>>
  ELSE IF IsLetter(s[i]) THEN
    LET Word(e) ==
          <<[k |-> "word", s |-> ToLower(Slice(s, i, e))]>> \o Tokenize(s, e)
    IN  Bind(LetterRunEnd(s, i), Word)
  ELSE IF s[i] \in Digits THEN
    LET Number(e) ==
          LET Decimal(f) ==
                IF f > e + 1
                  THEN <<[k |-> "decimal", s |-> Slice(s, i, e)]>>
                         \o Tokenize(s, f)
                ELSE <<[k |-> "num", s |-> Slice(s, i, e)]>> \o Tokenize(s, e)
          IN  Bind(IF e - i >= 2 /\ e <= Len(s) /\ s[e] = ","
                     THEN DigitRunEnd(s, e + 1) ELSE e, Decimal)
    IN  Bind(DigitRunEnd(s, i), Number)
  ELSE IF s[i] \in Whitespace THEN
    <<[k |-> "other", s |-> <<" ">>]>> \o Tokenize(s, i + 1)
  ELSE <<[k |-> "other", s |-> <<s[i]>>]>> \o Tokenize(s, i + 1)

\* parserinfo.JUMP
JUMP ==
  { <<" ">>, <<".">>, <<",">>, <<";">>, <<"-">>, <<"/">>, <<"'">>,
    <<"a", "t">>, <<"o", "n">>, <<"a", "n", "d">>, <<"a", "d">>, <<"m">>,
    <<"t">>, <<"o", "f">>, <<"s", "t">>, <<"n", "d">>, <<"r", "d">>,
    <<"t", "h">> }

\* parserinfo.WEEKDAYS: index of the weekday, Monday 0, or -1
WeekdayNames ==
  << {<<"m", "o", "n">>, <<"m", "o", "n", "d", "a", "y">>},
     {<<"t", "u", "e">>, <<"t", "u", "e", "s", "d", "a", "y">>},
     {<<"w", "e", "d">>, <<"w", "e", "d", "n", "e", "s", "d", "a", "y">>},
     {<<"t", "h", "u">>, <<"t", "h", "u", "r", "s", "d", "a", "y">>},
     {<<"f", "r", "i">>, <<"f", "r", "i", "d", "a", "y">>},
     {<<"s", "a", "t">>, <<"s", "a", "t", "u", "r", "d", "a", "y">>},
     {<<"s", "u", "n">>, <<"s", "u", "n", "d", "a", "y">>} >>

InfoWeekday(w) ==
  IF \E n \in 1..7 : w \in WeekdayNames[n]
    THEN (CHOOSE n \in 1..7 : w \in WeekdayNames[n]) - 1 ELSE -1

\* parserinfo.MONTHS: number of the month, or -1
MonthNames ==
  << {<<"j", "a", "n">>, <<"j", "a", "n", "u", "a", "r", "y">>},
     {<<"f", "e", "b">>, <<"f", "e", "b", "r", "u", "a", "r", "y">>},
     {<<"m", "a", "r">>, <<"m", "a", "r", "c", "h">>},
     {<<"a", "p", "r">>, <<"a", "p", "r", "i", "l">>},
     {<<"m", "a", "y">>},
     {<<"j", "u", "n">>, <<"j", "u", "n", "e">>},
     {<<"j", "u", "l">>, <<"j", "u", "l", "y">>},
     {<<"a", "u", "g">>, <<"a", "u", "g", "u", "s", "t">>},
     {<<"s", "e", "p">>, <<"s", "e", "p", "t">>,
      <<"s", "e", "p", "t", "e", "m", "b", "e", "r">>},
     {<<"o", "c", "t">>, <<"o", "c", "t", "o", "b", "e", "r">>},
     {<<"n", "o", "v">>, <<"n", "o", "v", "e", "m", "b", "e", "r">>},
     {<<"d", "e", "c">>, <<"d", "e", "c", "e", "m", "b", "e", "r">>} >>

InfoMonth(w) ==
  IF \E n \in 1..12 : w \in MonthNames[n]
    THEN CHOOSE n \in 1..12 : w \in MonthNames[n] ELSE -1

\* _ymd entries: [v |-> value, lab |-> "M", "Y" or ""]
YmdStr(s) ==
  [v |-> ToInt(s), lab |-> IF Len(s) > 2 THEN "Y" ELSE ""]

YmdNum(s) ==
  [v |-> ToInt(s), lab |-> IF ToInt(s) > 100 THEN "Y" ELSE ""]

HasLab(ymd, lab) == \E j \in 1..Len(ymd) : ymd[j].lab = lab

LabIdx(ymd, lab) == CHOOSE j \in 1..Len(ymd) : ymd[j].lab = lab

\* _ymd.could_be_day
could_be_day(ymd, value) ==
  IF ~HasLab(ymd, "M") THEN 1 <= value /\ value <= 31
  ELSE 1 <= value /\ value <= DaysInMonth(2000, ymd[LabIdx(ymd, "M")].v)

\* The token loop of parser._parse.  st is [ymd, weekday, err].
RECURSIVE ParseTokens(_, _, _)
RECURSIVE ParseToken(_, _, _)
ParseTokens(l, i, st) == Bind(st, LAMBDA v : ParseToken(l, i, v))

ParseToken(l, i, st) ==
  IF st.err \/ i > Len(l) THEN st
  ELSE
    LET tk == l[i]
        n == Len(l)
        isSep(j) == j <= n /\ l[j].k = "other" /\ l[j].s \in {<<"-">>, <<"/">>}
        isJump(j) == j <= n /\ l[j].k # "num" /\ l[j].k # "decimal" /\ l[j].s \in JUMP
    IN
    IF tk.k \in {"num", "decimal"} THEN
      IF tk.k = "num" /\ isSep(i + 1) THEN
        \* a date with separators: 01-02[-03]
        IF i + 2 <= n /\ ~isJump(i + 2) THEN
          IF l[i + 2].k \in {"num", "decimal"} THEN
            IF l[i + 2].k = "decimal" THEN [st EXCEPT !.err = TRUE]
            ELSE IF i + 4 <= n /\ l[i + 3] = l[i + 1] THEN
              IF l[i + 4].k = "num" THEN
                ParseTokens(l, i + 5,
                  [st EXCEPT !.ymd = @ \o <<YmdStr(tk.s), YmdStr(l[i + 2].s),
                                           YmdStr(l[i + 4].s)>>])
              ELSE IF l[i + 4].k = "word" /\ InfoMonth(l[i + 4].s) # -1 THEN
                ParseTokens(l, i + 5,
                  [st EXCEPT !.ymd = @ \o <<YmdStr(tk.s), YmdStr(l[i + 2].s),
                                           [v |-> InfoMonth(l[i + 4].s),
                                            lab |-> "M"]>>])
              ELSE [st EXCEPT !.err = TRUE]
            ELSE
              ParseTokens(l, i + 3,
                [st EXCEPT !.ymd = @ \o <<YmdStr(tk.s), YmdStr(l[i + 2].s)>>])
          ELSE IF l[i + 2].k = "word" /\ InfoMonth(l[i + 2].s) # -1 THEN
            ParseTokens(l, i + 3,
              [st EXCEPT !.ymd = @ \o <<YmdStr(tk.s),
                                       [v |-> InfoMonth(l[i + 2].s),
                                        lab |-> "M"]>>])
          ELSE [st EXCEPT !.err = TRUE]
        ELSE ParseTokens(l, i + 2, [st EXCEPT !.ymd = @ \o <<YmdStr(tk.s)>>])
      ELSE IF i + 1 > n \/ isJump(i + 1) THEN
        ParseTokens(l, i + 1, [st EXCEPT !.ymd = @ \o <<YmdNum(tk.s)>>])
      ELSE IF could_be_day(st.ymd, ToInt(tk.s)) THEN
        ParseTokens(l, i + 1, [st EXCEPT !.ymd = @ \o <<YmdNum(tk.s)>>])
      ELSE [st EXCEPT !.err = TRUE]
    ELSE IF tk.k = "word" /\ InfoWeekday(tk.s) # -1 THEN
      ParseTokens(l, i + 1, [st EXCEPT !.weekday = InfoWeekday(tk.s)])
    ELSE IF tk.k = "word" /\ InfoMonth(tk.s) # -1 THEN
      ParseTokens(l, i + 1,
        [st EXCEPT !.ymd = @ \o <<[v |-> InfoMonth(tk.s), lab |-> "M"]>>])
    ELSE IF tk.s \in JUMP THEN ParseTokens(l, i + 1, st)
    ELSE [st EXCEPT !.err = TRUE]

\* _ymd.resolve_ymd with dayfirst = yearfirst = False: [year, month, day],
\* -1 for a member that is not given
Unset == [year |-> -1, month |-> -1, day |-> -1]

resolve_ymd(ymd) ==
  LET n == Len(ymd)
      hasM == HasLab(ymd, "M")
      hasY == HasLab(ymd, "Y")
      mi == IF hasM THEN LabIdx(ymd, "M") ELSE 0
      yi == IF hasY THEN LabIdx(ymd, "Y") ELSE 0
      v(j) == ymd[j].v
  IN
  IF n = 0 THEN Unset
  ELSE IF n = 1 /\ hasM THEN [Unset EXCEPT !.month = v(1)]
  ELSE IF n = 1 /\ hasY THEN [Unset EXCEPT !.year = v(1)]
  ELSE IF n = 2 /\ hasM /\ hasY THEN [Unset EXCEPT !.month = v(mi), !.year = v(yi)]
  ELSE IF n = 3 /\ hasM /\ hasY THEN
    [year |-> v(yi), month |-> v(mi),
     day |-> v(CHOOSE j \in 1..3 : j # mi /\ j # yi)]
  ELSE IF n = 1 THEN
    IF v(1) > 31 THEN [Unset EXCEPT !.year = v(1)]
    ELSE [Unset EXCEPT !.day = v(1)]
  ELSE IF n = 2 /\ hasM THEN
    LET other == v(3 - mi)
    IN  IF other > 31 THEN [Unset EXCEPT !.month = v(mi), !.year = other]
        ELSE [Unset EXCEPT !.month = v(mi), !.day = other]
  ELSE IF n = 2 THEN
    IF v(1) > 31 THEN [Unset EXCEPT !.year = v(1), !.month = v(2)]
    ELSE IF v(2) > 31 THEN [Unset EXCEPT !.month = v(1), !.year = v(2)]
    ELSE [Unset EXCEPT !.month = v(1), !.day = v(2)]
  ELSE IF mi = 1 THEN
    IF v(2) > 31 THEN [month |-> v(1), year |-> v(2), day |-> v(3)]
    ELSE [month |-> v(1), day |-> v(2), year |-> v(3)]
  ELSE IF mi = 2 THEN
    IF v(1) > 31 THEN [year |-> v(1), month |-> v(2), day |-> v(3)]
    ELSE [day |-> v(1), month |-> v(2), year |-> v(3)]
  ELSE IF mi = 3 THEN
    IF v(2) > 31 THEN [day |-> v(1), year |-> v(2), month |-> v(3)]
    ELSE [year |-> v(1), day |-> v(2), month |-> v(3)]
  ELSE IF v(1) > 31 \/ yi = 1 THEN [year |-> v(1), month |-> v(2), day |-> v(3)]
  ELSE IF v(1) > 12 THEN [day |-> v(1), month |-> v(2), year |-> v(3)]
  ELSE [month |-> v(1), day |-> v(2), year |-> v(3)]

\* parserinfo.convertyear
convertyear(year, century_specified) ==
  IF year < 100 /\ ~century_specified THEN
    LET y == year + ((ClockYear \div 100) * 100)
    IN  IF y >= ClockYear + 50 THEN y - 100
        ELSE IF y < ClockYear - 50 THEN y + 100
        ELSE y
  ELSE year

\* dt + relativedelta(weekday=wd): the first such weekday on or after dt
relativedelta_weekday(dt, wd) == AddDays(dt, (7 - Weekday(dt) + wd) % 7)

\* parser._build_naive on the resolved [year, month, day] r and the weekday
build_naive(r, weekday, century_specified, default) ==
  LET year == IF r.year = -1 THEN default.year
              ELSE convertyear(r.year, century_specified)
      month == IF r.month = -1 THEN default.month ELSE r.month
  IN
  IF year < 1 \/ year > 9999 \/ month < 1 \/ month > 12 THEN ParseError
  ELSE
    LET dim == DaysInMonth(year, month)
        day == IF r.day # -1 THEN r.day
               ELSE IF default.day > dim THEN dim ELSE default.day
        naive == [year |-> year, month |-> month, day |-> day,
                  hour |-> default.hour]
    IN
    IF day < 1 \/ day > dim THEN ParseError
    ELSE IF weekday # -1 /\ (r.day = -1 \/ r.day = 0)
      THEN relativedelta_weekday(naive, weekday)
    ELSE naive

\* date_parser.parse(date_str, default=default)
date_parser_parse(date_str, default) ==
  LET Parsed(st) ==
        IF st.err \/ Len(st.ymd) > 3 \/ (st.ymd = <<>> /\ st.weekday = -1)
          THEN ParseError
        ELSE Bind(resolve_ymd(st.ymd),
                  LAMBDA r : build_naive(r, st.weekday, HasLab(st.ymd, "Y"),
                                         default))
      Lexed(l) ==
        Bind(ParseTokens(l, 1, [ymd |-> <<>>, weekday |-> -1, err |-> FALSE]),
             Parsed)
  IN  Bind(Tokenize(date_str, 1), Lexed)

(***************************************************************************)
(* ShowTextParser.extract_date                                             *)
(***************************************************************************)
\* post_timestamp.replace(hour=0, minute=0, second=0, microsecond=0)
Midnight(dt) == [dt EXCEPT !.hour = 0]

\* variant of DateAccepted: the window reaches 8 days back
DateAccepted_EightDays(parsed_date, post_timestamp) ==
  \/ DtGeq(parsed_date, Midnight(post_timestamp))
  \/ DeltaDays(post_timestamp, parsed_date) <= 8

\* the two acceptance tests applied to a parsed candidate
DateAccepted(parsed_date, post_timestamp) ==
  \/ DtGeq(parsed_date, Midnight(post_timestamp))
  \/ DeltaDays(post_timestamp, parsed_date) <= 7

\* variant of DateFromMatches: a parse error is not caught and ends the
\* extraction
RECURSIVE DateFromMatches_Uncaught(_, _, _, _)
DateFromMatches_Uncaught(txt, ms, j, post_timestamp) ==
  IF j > Len(ms) THEN NoDate
  ELSE
    LET Candidate(parsed_date) ==
          IF parsed_date = ParseError THEN ParseError
          ELSE IF DateAccepted(parsed_date, post_timestamp) THEN parsed_date
          ELSE DateFromMatches_Uncaught(txt, ms, j + 1, post_timestamp)
        Parse(date_str) ==
          Bind(date_parser_parse(date_str, post_timestamp), Candidate)
    IN  Bind(Group0(txt, ms[j]), Parse)

\* the inner for loop over the matches ms of one pattern, from match j:
\* the first candidate that parses and is accepted, or NoDate
RECURSIVE DateFromMatches(_, _, _, _)
DateFromMatches(txt, ms, j, post_timestamp) ==
  IF j > Len(ms) THEN NoDate
  ELSE
    LET Candidate(parsed_date) ==
          IF /\ parsed_date # ParseError
             /\ DateAccepted(parsed_date, post_timestamp)
            THEN parsed_date
          ELSE DateFromMatches(txt, ms, j + 1, post_timestamp)
        Parse(date_str) ==
          Bind(date_parser_parse(date_str, post_timestamp), Candidate)
    IN  Bind(Group0(txt, ms[j]), Parse)

\* the outer for loop over DATE_PATTERNS, from pattern p
RECURSIVE DateFromPatterns(_, _, _)
DateFromPatterns(txt, p, post_timestamp) ==
  IF p > Len(DATE_PATTERNS) THEN NoDate
  ELSE
    LET Found(d) ==
          IF d # NoDate THEN d
          ELSE DateFromPatterns(txt, p + 1, post_timestamp)
        Matched(ms) == Bind(DateFromMatches(txt, ms, 1, post_timestamp), Found)
    IN  Bind(FindIter(DATE_PATTERNS[p], txt), Matched)

Tonight == <<"t", "o", "n", "i", "g", "h", "t">>
Today == <<"t", "o", "d", "a", "y">>
Tomorrow == <<"t", "o", "m", "o", "r", "r", "o", "w">>

\* variant of extract_date: "tomorrow" is looked for before "tonight"
extract_date_TomorrowFirst(txt, post_timestamp) ==
  IF ~Truthy(txt) THEN NoDate
  ELSE
    LET text_lower == ToLower(txt)
        Found(d) ==
          IF d # NoDate THEN d
          ELSE IF Contains(text_lower, Tomorrow)
            THEN [NextDay(post_timestamp) EXCEPT !.hour = 20]
          ELSE IF Contains(text_lower, Tonight) \/ Contains(text_lower, Today)
            THEN [post_timestamp EXCEPT !.hour = 20]
          ELSE NoDate
    IN  Bind(DateFromPatterns(txt, 1, post_timestamp), Found)

\* extract_date(text, post_timestamp)
extract_date(txt, post_timestamp) ==
  IF ~Truthy(txt) THEN NoDate
  ELSE
    LET text_lower == ToLower(txt)
        Found(d) ==
          IF d # NoDate THEN d
          ELSE IF Contains(text_lower, Tonight) \/ Contains(text_lower, Today)
            THEN [post_timestamp EXCEPT !.hour = 20]
          ELSE IF Contains(text_lower, Tomorrow)
            THEN [NextDay(post_timestamp) EXCEPT !.hour = 20]
          ELSE NoDate
    IN  Bind(DateFromPatterns(txt, 1, post_timestamp), Found)

(***************************************************************************)
(* ShowTextParser.extract_location                                         *)
(***************************************************************************)
Letter == Set(LowerLetters)

\* [a-zA-Z\s&]
PhraseChar == Set(LowerLetters \cup Whitespace \cup {"&"})

\* (?:Theatre|Theater|Hall|...|Arena|Stadium)
VenueAlt ==
  Alt(<< Lit(<<"T", "h", "e", "a", "t", "r", "e">>),
          Lit(<<"T", "h", "e", "a", "t", "e", "r">>),
          Lit(<<"H", "a", "l", "l">>),
          Lit(<<"V", "e", "n", "u", "e">>),
          Lit(<<"C", "l", "u", "b">>),
          Lit(<<"B", "a", "r">>),
          Lit(<<"L", "o", "u", "n", "g", "e">>),
          Lit(<<"C", "a", "f", "e">>),
          Lit(<<"C", "a", "f", "e_acute">>),
          Lit(<<"P", "u", "b">>),
          Lit(<<"A", "r", "e", "n", "a">>),
          Lit(<<"S", "t", "a", "d", "i", "u", "m">>) >>)

\* (?:at|@)\s+
AtPrefix == Cat(<<Alt(<<Lit(<<"a", "t">>), Lit(<<"@">>)>>), Plus(WS)>>)

\* each pattern is the part before group 1 and group 1, which ends the
\* pattern
location_patterns ==
  << [pre |-> AtPrefix, grp |-> Cat(<<Letter, Plus(PhraseChar), VenueAlt>>)],
     [pre |-> AtPrefix, grp |-> Cat(<<Letter, Rep(PhraseChar, 3, 30)>>)],
     [pre |-> Lit(<<"@">>),
      grp |-> Plus(Set(LowerLetters \cup Digits \cup {"_"}))] >>

NoGroup == [start |-> 0, gstart |-> 0, end |-> 0]

\* the match of pre followed by grp at position pos, in matcher order
RECURSIVE GroupAt(_, _, _, _, _)
GroupAt(pat, s, pos, es, j) ==
  IF j > Len(es) THEN NoGroup
  ELSE LET Grp(gs) ==
             IF gs # <<>>
               THEN [start |-> pos, gstart |-> es[j], end |-> gs[1]]
             ELSE GroupAt(pat, s, pos, es, j + 1)
       IN  Bind(Ends(pat.grp, s, es[j]), Grp)

\* the leftmost match of the pattern starting at pos or later
GroupSearch(pat, s, pos) ==
  LET MatchAt(p) == Bind(Ends(pat.pre, s, p),
                         LAMBDA es : GroupAt(pat, s, p, es, 1))
      First(starts) ==
        IF starts = {} THEN NoGroup ELSE Bind(MinOf(starts), MatchAt)
  IN  Bind({ p \in pos..(Len(s) + 1) : MatchAt(p) # NoGroup }, First)

\* the inner for loop without the lower bound on the length
RECURSIVE LocationFromMatches_NoMinimum(_, _, _)
LocationFromMatches_NoMinimum(pat, txt, pos) ==
  LET Candidate(m) ==
        IF m = NoGroup THEN None
        ELSE LET Checked(location) ==
                   IF Len(location) < 100 THEN location
                   ELSE LocationFromMatches_NoMinimum(pat, txt, m.end)
             IN  Bind(Strip(Slice(txt, m.gstart, m.end)), Checked)
  IN  Bind(GroupSearch(pat, txt, pos), Candidate)

\* the inner for loop over the matches of one pattern, from position pos:
\* the first stripped group 1 with 2 < len < 100, or None
RECURSIVE LocationFromMatches(_, _, _)
LocationFromMatches(pat, txt, pos) ==
  LET Candidate(m) ==
        IF m = NoGroup THEN None
        ELSE LET Checked(location) ==
                   IF Len(location) > 2 /\ Len(location) < 100 THEN location
                   ELSE LocationFromMatches(pat, txt, m.end)
             IN  Bind(Strip(Slice(txt, m.gstart, m.end)), Checked)
  IN  Bind(GroupSearch(pat, txt, pos), Candidate)

RECURSIVE LocationFromPatterns(_, _)
LocationFromPatterns(txt, p) ==
  IF p > Len(location_patterns) THEN None
  ELSE LET Found(loc) ==
             IF loc # None THEN loc ELSE LocationFromPatterns(txt, p + 1)
       IN  Bind(LocationFromMatches(location_patterns[p], txt, 1), Found)

extract_location(txt) ==
  IF ~Truthy(txt) THEN None ELSE LocationFromPatterns(txt, 1)

(***************************************************************************)
(* ShowTextParser.extract_time                                             *)
(***************************************************************************)
RECURSIVE TimeFromPatterns(_, _)
TimeFromPatterns(txt, p) ==
  IF p > Len(TIME_PATTERNS) THEN None
  ELSE LET Found(m) ==
             IF m # NoMatch THEN Strip(Group0(txt, m))
             ELSE TimeFromPatterns(txt, p + 1)
       IN  Bind(Search(TIME_PATTERNS[p], txt, 1), Found)

\* the match that starts first in the text, whatever its pattern
extract_time_ByPosition(txt) ==
  IF ~Truthy(txt) THEN None
  ELSE LET ms == [p \in 1..Len(TIME_PATTERNS) |->
                    Search(TIME_PATTERNS[p], txt, 1)]
           Earliest(found) ==
             IF found = {} THEN None
             ELSE LET q == CHOOSE q \in found :
                             \A r \in found : ms[q].start <= ms[r].start
                  IN  Strip(Group0(txt, ms[q]))
       IN  Bind({ p \in DOMAIN ms : ms[p] # NoMatch }, Earliest)

extract_time(txt) ==
  IF ~Truthy(txt) THEN None ELSE TimeFromPatterns(txt, 1)

(***************************************************************************)
(* ShowTextParser.parse_show_info                                          *)
(***************************************************************************)
parse_show_info(caption, post_timestamp) ==
  IF ~Truthy(caption)
    THEN [date |-> None, location |-> None, time |-> None, is_show |-> FALSE]
  ELSE IF ~is_show_post(caption)
    THEN [date |-> None, location |-> None, time |-> None, is_show |-> FALSE]
  ELSE
    LET Info(parsed_date) ==
          [date |-> IF parsed_date # NoDate THEN strftime(parsed_date)
                    ELSE None,
           location |-> extract_location(caption),
           time |-> extract_time(caption),
           is_show |-> TRUE]
    IN  Bind(extract_date(caption, post_timestamp), Info)

(***************************************************************************)
(* OCRExtractor                                                            *)
(***************************************************************************)
\* local_image_path None
NoImage == <<>>

\* outcome of Image.open / pytesseract.image_to_string raising
OcrFailure == <<"OcrFailure">>

\* extract_text_from_image: raw is what the OCR engine does with the file,
\* OcrFailure or the text image_to_string returns
extract_text_from_image(image_path, raw) ==
  IF ~tesseract_available THEN None
  ELSE IF image_path = NoImage \/ image_path \notin files THEN None
  ELSE IF raw = OcrFailure THEN None
  ELSE IF raw # EmptyStr THEN Strip(raw) ELSE None

\* the part of extract_show_info_from_image that reads the recovered text
info_from_text(extracted_text, post_timestamp) ==
  LET Info(parsed_date) ==
        [date |-> IF parsed_date # NoDate THEN strftime(parsed_date)
                  ELSE None,
         location |-> extract_location(extracted_text),
         time |-> extract_time(extracted_text)]
  IN  Bind(extract_date(extracted_text, post_timestamp), Info)

(***************************************************************************)
(* Inputs: captions, image texts, posts                                    *)
(***************************************************************************)
w_Beautiful == <<"B", "e", "a", "u", "t", "i", "f", "u", "l">>
w_sunset == <<"s", "u", "n", "s", "e", "t">>
w_Live == <<"L", "i", "v", "e">>
w_show == <<"s", "h", "o", "w">>
w_tonight == <<"t", "o", "n", "i", "g", "h", "t">>
w_tickets == <<"t", "i", "c", "k", "e", "t", "s">>
w_at == <<"a", "t">>
w_Unknown == <<"U", "n", "k", "n", "o", "w", "n">>
w_May == <<"M", "a", "y">>
w_d1 == <<"1">>
w_d2 == <<"2">>
w_Blue == <<"B", "l", "u", "e">>
w_Hall == <<"H", "a", "l", "l">>
w_doors == <<"d", "o", "o", "r", "s">>
w_t700 == <<"7", ":", "0", "0">>
w_PM == <<"P", "M">>
w_The == <<"T", "h", "e">>
w_Venue == <<"V", "e", "n", "u", "e">>
w_t830 == <<"8", ":", "3", "0">>
w_tomorrow == <<"t", "o", "m", "o", "r", "r", "o", "w">>
w_today == <<"t", "o", "d", "a", "y">>
w_upcoming == <<"u", "p", "c", "o", "m", "i", "n", "g">>
w_d5_4 == <<"5", "/", "4">>
w_door == <<"d", "o", "o", "r">>
w_stage == <<"s", "t", "a", "g", "e">>

\* ' '.join(ws)
RECURSIVE SentenceFrom(_, _)
SentenceFrom(ws, k) ==
  IF k > Len(ws) THEN <<>>
  ELSE IF k = Len(ws) THEN ws[k]
  ELSE ws[k] \o <<" ">> \o SentenceFrom(ws, k + 1)

Sentence(ws) == SentenceFrom(ws, 1)

\* captions of the posts the scraper returns ('' when the post has none)
Captions ==
  { EmptyStr,
    Sentence(<<w_Beautiful, w_sunset>>),
    Sentence(<<w_Live, w_show, w_tonight>>),
    Sentence(<<w_show, w_tickets>>),
    Sentence(<<w_Live, w_show, w_at, w_Unknown>>),
    Sentence(<<w_Live, w_show, w_tonight, w_at, w_Unknown>>),
    Sentence(<<w_Live, w_show, w_May, w_d1, w_at, w_Blue, w_Hall>>),
    Sentence(<<w_Live, w_show, w_doors, w_t700, w_PM>>) }

\* what the OCR engine can do with an image
OcrOutcomes ==
  { OcrFailure,
    <<" ">>,
    Sentence(<<w_May, w_d2, w_at, w_The, w_Venue, w_t830, w_PM>>) }

\* authors and the time of their posts (post.date_utc); 2024-05-01 is a
\* Wednesday
Authors ==
  { [username |-> "blue_hall", timestamp |->
       [year |-> 2024, month |-> 5, day |-> 1, hour |-> 12]],
    [username |-> "the_venue", timestamp |->
       [year |-> 2024, month |-> 5, day |-> 10, hour |-> 9]] }

Timestamps == { a.timestamp : a \in Authors }

\* nickname_map arguments: None, or a dict with an entry for one author
NoNicknames == <<>>

NicknameMaps == { NoNicknames, [u \in {"blue_hall"} |-> "Blue Hall"] }

MaxPosts == 2

\* f"temp_{post.shortcode}.jpg"
ImagePath(n) == <<"temp", n>>

\* the n-th post of a fetch; its URL and image file are its own
PostsAt(n) ==
  { [post_url |-> n, username |-> a.username, caption |-> c,
     timestamp |-> a.timestamp, local_image_path |-> img] :
      a \in Authors, c \in Captions, img \in {NoImage, ImagePath(n)} }

\* all_posts.sort(key=lambda x: x['timestamp'], reverse=True)
SortedNewestFirst(ps) ==
  \A i \in 1..(Len(ps) - 1) : DtGeq(ps[i].timestamp, ps[i + 1].timestamp)

\* results get_multiple_profiles_posts can return, of n posts
RECURSIVE PostListsOfLen(_)
PostListsOfLen(n) ==
  IF n = 0 THEN {<<>>}
  ELSE { Append(ps, p) : ps \in PostListsOfLen(n - 1), p \in PostsAt(n) }

\* the results of at most max posts, newest first
PostLists(max) ==
  { ps \in UNION { PostListsOfLen(n) : n \in 0..max } :
      SortedNewestFirst(ps) }

\* parse_show_info and info_from_text on the model's inputs, computed once
CaptionInfo ==
  [c \in Captions, t \in Timestamps |-> parse_show_info(c, t)]

RecoveredTexts ==
  { Strip(raw) : raw \in OcrOutcomes \ {OcrFailure} } \ {EmptyStr}

TextInfo ==
  [x \in RecoveredTexts, t \in Timestamps |-> info_from_text(x, t)]

extract_show_info_from_image(image_path, post_timestamp, raw) ==
  LET extracted_text == extract_text_from_image(image_path, raw)
  IN  IF ~Truthy(extracted_text)
        THEN [date |-> None, location |-> None, time |-> None]
      ELSE TextInfo[extracted_text, post_timestamp]

(***************************************************************************)
(* ShowProcessor.process_posts                                             *)
(***************************************************************************)
Unknown == w_Unknown

\* variant of DisplayName: the nickname map is not consulted
DisplayName_Handle(post) == post.username

\* display_name of a post under the nickname_map argument
DisplayName(post) ==
  IF post.username \in DOMAIN nickname_map
    THEN nickname_map[post.username] ELSE post.username

\* show_info as first built from the caption
CaptionShowInfo(post, caption_info) ==
  [post_url |-> post.post_url,
   username |-> post.username,
   display_name |-> DisplayName(post),
   caption |-> post.caption,
   date |-> caption_info.date,
   location |-> IF Truthy(caption_info.location)
                  THEN caption_info.location ELSE Unknown,
   time |-> IF Truthy(caption_info.time) THEN caption_info.time ELSE Unknown]

\* variant of Skipped: rejected captions are processed like accepted ones
Skipped_Never(caption_info) == FALSE

\* "if not caption_info['is_show']: continue"
Skipped(caption_info) == ~caption_info.is_show

\* variant of NeedsOcr: a missing time triggers the OCR call too
NeedsOcr_TimeToo(post, show_info) ==
  /\ \/ ~Truthy(show_info.date)
     \/ show_info.location = Unknown
     \/ show_info.time = Unknown
  /\ post.local_image_path # NoImage

\* the condition under which the image is read
NeedsOcr(post, show_info) ==
  /\ ~Truthy(show_info.date) \/ show_info.location = Unknown
  /\ post.local_image_path # NoImage

\* variant of FillFromOcr: date and location are taken from the image
\* whenever it was read, found or not
FillFromOcr_Blind(show_info, ocr_info) ==
  [show_info EXCEPT
     !.date = ocr_info.date,
     !.location = IF Truthy(ocr_info.location) THEN ocr_info.location
                  ELSE Unknown,
     !.time = IF show_info.time = Unknown /\ Truthy(ocr_info.time)
                THEN ocr_info.time ELSE @]

\* variant of FillFromOcr: the image's time replaces the caption's
FillFromOcr_OverwriteTime(show_info, ocr_info) ==
  [show_info EXCEPT
     !.date = IF ~Truthy(show_info.date) /\ Truthy(ocr_info.date)
                THEN ocr_info.date ELSE @,
     !.location = IF show_info.location = Unknown /\ Truthy(ocr_info.location)
                    THEN ocr_info.location ELSE @,
     !.time = IF Truthy(ocr_info.time) THEN ocr_info.time ELSE @]

\* fill in missing information from OCR
FillFromOcr(show_info, ocr_info) ==
  [show_info EXCEPT
     !.date = IF ~Truthy(show_info.date) /\ Truthy(ocr_info.date)
                THEN ocr_info.date ELSE @,
     !.location = IF show_info.location = Unknown /\ Truthy(ocr_info.location)
                    THEN ocr_info.location ELSE @,
     !.time = IF show_info.time = Unknown /\ Truthy(ocr_info.time)
                THEN ocr_info.time ELSE @]

\* variant of DefaultDate: a missing date is left as it is
DefaultDate_None(show_info) == show_info

\* set defaults for missing info
DefaultDate(show_info) ==
  IF ~Truthy(show_info.date) THEN [show_info EXCEPT !.date = Unknown]
  ELSE show_info

\* variant of Emit: the record is put in front of the earlier ones
Emit_Front(records, show_info) == <<show_info>> \o records

\* shows.append(show_info)
Emit(records, show_info) == Append(records, show_info)

\* variant of Included: every accepted post yields a record
Included_Always(show_info) == TRUE

\* only add shows with at least a date or location
Included(show_info) ==
  show_info.date # Unknown \/ show_info.location # Unknown

(***************************************************************************)
(* The components around the processing core, before they are used         *)
(***************************************************************************)
\* os.path.exists(self.storage_file) is False
NoFile == <<"no file">>

\* no LinksManager method has been called
NoCall ==
  [op |-> "none", username |-> None, nickname |-> None, returned |-> TRUE,
   saved |-> FALSE]

\* datetime.now() of a CalendarUI not built yet
NoCalendarDate == [year |-> 0, month |-> 0, day |-> 0]

AppIdle ==
  /\ links = <<>>
  /\ storage = NoFile
  /\ last_call = NoCall
  /\ profile_feed = <<>>
  /\ max_posts = 0
  /\ attempt = 0
  /\ cursor = 0
  /\ attempt_log = <<>>
  /\ current_date = NoCalendarDate
  /\ nav_log = <<>>

\* no parser instance is called on its own
NoParserCalls ==
  /\ ref_timestamp = NoDate
  /\ now_year = ClockYear
  /\ parsers = <<>>
  /\ parse_calls = <<>>

Init ==
  /\ pc = "idle"
  /\ posts = <<>>
  /\ nickname_map = NoNicknames
  /\ idx = 0
  /\ shows = <<>>
  /\ ocr_calls = <<>>
  /\ files = {}
  /\ tesseract_available \in BOOLEAN
  /\ AppIdle
  /\ text = None
  /\ result = FALSE
  /\ NoParserCalls

\* process_posts is called: the scraper returns the posts, with the image
\* files it downloaded
CallProcessPosts ==
  /\ pc = "idle"
  /\ \E ps \in PostLists(MaxPosts), nm \in NicknameMaps :
       /\ posts' = ps
       /\ nickname_map' = nm
       /\ files' = { ps[k].local_image_path : k \in 1..Len(ps) } \ {NoImage}
  /\ idx' = 1
  /\ shows' = <<>>
  /\ pc' = "loop"
  /\ UNCHANGED <<ocr_calls, tesseract_available, text, result, parserVars,
                 appVars>>

\* what the OCR engine can do with an image when process_posts runs: it
\* reads nothing when it is not installed
EngineOutcomes ==
  IF tesseract_available THEN OcrOutcomes ELSE {OcrFailure}

\* one iteration of "for post in posts"
ProcessPost ==
  /\ pc = "loop"
  /\ idx <= Len(posts)
  /\ \E raw \in EngineOutcomes :
       LET post == posts[idx]
           caption_info == CaptionInfo[post.caption, post.timestamp]
           show_info == CaptionShowInfo(post, caption_info)
           needs_ocr == NeedsOcr(post, show_info)
           ocr_info == extract_show_info_from_image(post.local_image_path,
                                                    post.timestamp, raw)
           merged == DefaultDate(IF needs_ocr
                                   THEN FillFromOcr(show_info, ocr_info)
                                   ELSE show_info)
       IN  IF Skipped(caption_info)
             THEN UNCHANGED <<shows, ocr_calls, files, appVars>>
           ELSE
             /\ ocr_calls' =
                  IF needs_ocr
                    THEN Append(ocr_calls,
                           [post_url |-> post.post_url,
                            image_path |-> post.local_image_path,
                            post_timestamp |-> post.timestamp,
                            raw |-> raw,
                            ocr_info |-> ocr_info])
                  ELSE ocr_calls
             /\ shows' = IF Included(merged) THEN Emit(shows, merged)
                         ELSE shows
             /\ files' = files \ {post.local_image_path}
  /\ idx' = idx + 1
  /\ UNCHANGED <<pc, posts, nickname_map, tesseract_available, text, result,
                 parserVars, appVars>>

\* return shows
Return ==
  /\ pc = "loop"
  /\ idx > Len(posts)
  /\ pc' = "done"
  /\ UNCHANGED <<posts, nickname_map, idx, shows, ocr_calls, files,
                 tesseract_available, text, result, parserVars, appVars>>

Next == CallProcessPosts \/ ProcessPost \/ Return

Spec == Init /\ [][Next]_vars

(***************************************************************************)
(* Direct calls of is_show_post on bounded texts                           *)
(***************************************************************************)
MaxWords == 2

ClassifyWords ==
  { w_show, w_Live, w_tickets, w_upcoming, w_tomorrow, w_d5_4, w_sunset,
    w_door, w_stage }

RECURSIVE WordLists(_)
WordLists(n) ==
  IF n = 0 THEN {<<>>}
  ELSE { Append(ws, w) : ws \in WordLists(n - 1), w \in ClassifyWords }

\* None, '' and every text of up to MaxWords words
ClassifyTexts ==
  {None} \cup { Sentence(ws) : ws \in UNION { WordLists(n) : n \in 0..MaxWords } }

InitClassify ==
  /\ pc = "classify"
  /\ text \in ClassifyTexts
  /\ result = FALSE
  /\ posts = <<>>
  /\ nickname_map = NoNicknames
  /\ idx = 0
  /\ shows = <<>>
  /\ ocr_calls = <<>>
  /\ files = {}
  /\ tesseract_available = FALSE
  /\ AppIdle
  /\ NoParserCalls

CallIsShowPost ==
  /\ pc = "classify"
  /\ result' = is_show_post(text)
  /\ pc' = "classified"
  /\ UNCHANGED <<posts, nickname_map, idx, shows, ocr_calls, files,
                 tesseract_available, text, parserVars, appVars>>

NextClassify == CallIsShowPost

SpecClassify == InitClassify /\ [][NextClassify]_vars

(***************************************************************************)
(* Direct calls of extract_date on bounded texts                           *)
(***************************************************************************)
f_May_2 == <<"M", "a", "y", " ", "2">>
f_May_3 == <<"M", "a", "y", " ", "3">>
f_Feb_30 == <<"F", "e", "b", " ", "3", "0">>
f_5_11 == <<"5", "/", "1", "1">>
f_Fri_3 == <<"F", "r", "i", " ", "3">>
f_on_Fri == <<"o", "n", " ", "F", "r", "i">>
f_9th_of_May == <<"9", "t", "h", " ", "o", "f", " ", "M", "a", "y">>

\* pieces of text that hold a date expression: one for each date pattern
\* except the relative words, one that does not parse, the relative words
DateFragments ==
  { f_May_2, f_May_3, f_Feb_30, f_5_11, f_Fri_3, f_on_Fri, f_9th_of_May,
    w_tonight, w_today, w_tomorrow }

MaxFragments == 2

RECURSIVE FragmentLists(_)
FragmentLists(n) ==
  IF n = 0 THEN {<<>>}
  ELSE { Append(fs, f) : fs \in FragmentLists(n - 1), f \in DateFragments }

\* None, '' and every text of up to MaxFragments fragments
DateTexts ==
  {None} \cup
    { Sentence(fs) : fs \in UNION { FragmentLists(n) : n \in 0..MaxFragments } }

InitDate ==
  /\ pc = "extract"
  /\ text \in DateTexts
  /\ ref_timestamp \in Timestamps
  /\ result = NoDate
  /\ posts = <<>>
  /\ nickname_map = NoNicknames
  /\ idx = 0
  /\ shows = <<>>
  /\ ocr_calls = <<>>
  /\ files = {}
  /\ tesseract_available = FALSE
  /\ AppIdle
  /\ now_year = ClockYear
  /\ parsers = <<>>
  /\ parse_calls = <<>>

CallExtractDate ==
  /\ pc = "extract"
  /\ result' = extract_date(text, ref_timestamp)
  /\ pc' = "extracted"
  /\ UNCHANGED <<posts, nickname_map, idx, shows, ocr_calls, files,
                 tesseract_available, text, parserVars, appVars>>

NextDate == CallExtractDate

SpecDate == InitDate /\ [][NextDate]_vars

(***************************************************************************)
(* process_posts on a fetch that holds the same post more than once        *)
(***************************************************************************)
MaxRepeatedPosts == 1

\* all_posts when usernames names one profile twice: get_profile_posts
\* fetches its posts twice, the second download rewrites the image files of
\* the first, and the stable sort puts the two copies of a post together
Twice(ps) == [i \in 1..(2 * Len(ps)) |-> ps[(i + 1) \div 2]]

RepeatedLists ==
  { Twice(ps) : ps \in UNION { PostListsOfLen(n) : n \in 0..MaxRepeatedPosts } }

\* process_posts is called with a profile named twice
CallProcessPostsRepeated ==
  /\ pc = "idle"
  /\ \E ps \in RepeatedLists, nm \in NicknameMaps :
       /\ posts' = ps
       /\ nickname_map' = nm
       /\ files' = { ps[k].local_image_path : k \in 1..Len(ps) } \ {NoImage}
  /\ idx' = 1
  /\ shows' = <<>>
  /\ pc' = "loop"
  /\ UNCHANGED <<ocr_calls, tesseract_available, text, result, parserVars,
                 appVars>>

NextRepeat == CallProcessPostsRepeated \/ ProcessPost \/ Return

SpecRepeat == Init /\ [][NextRepeat]_vars

(***************************************************************************)
(* Calls of parse_show_info on several ShowTextParser instances            *)
(***************************************************************************)
MaxParsers == 2
MaxCalls == 3
MaxYears == 1

\* captions the instances are asked to parse
ParseCaptions ==
  { Sentence(<<w_Live, w_show, w_tonight>>),
    Sentence(<<w_Live, w_show, w_May, w_d1, w_at, w_Blue, w_Hall>>) }

InitParse ==
  /\ pc = "parse"
  /\ now_year = ClockYear
  /\ parsers = <<>>
  /\ parse_calls = <<>>
  /\ ref_timestamp = NoDate
  /\ text = None
  /\ result = FALSE
  /\ posts = <<>>
  /\ nickname_map = NoNicknames
  /\ idx = 0
  /\ shows = <<>>
  /\ ocr_calls = <<>>
  /\ files = {}
  /\ tesseract_available = FALSE
  /\ AppIdle

\* the wall clock passes into the next year
NewYear ==
  /\ pc = "parse"
  /\ now_year < ClockYear + MaxYears
  /\ now_year' = now_year + 1
  /\ UNCHANGED <<pc, posts, nickname_map, idx, shows, ocr_calls, files,
                 tesseract_available, text, result, ref_timestamp, parsers,
                 parse_calls, appVars>>

\* ShowTextParser(): self.current_year = datetime.now().year
NewParser ==
  /\ pc = "parse"
  /\ Len(parsers) < MaxParsers
  /\ parsers' = Append(parsers, [current_year |-> now_year])
  /\ UNCHANGED <<pc, posts, nickname_map, idx, shows, ocr_calls, files,
                 tesseract_available, text, result, ref_timestamp, now_year,
                 parse_calls, appVars>>

\* variant of ParseOn: dates are resolved in the year the instance was
\* built in
ParseOn_CurrentYear(self, caption, post_timestamp) ==
  parse_show_info(caption, [post_timestamp EXCEPT !.year = self.current_year])

\* self.parse_show_info(caption, post_timestamp)
ParseOn(self, caption, post_timestamp) == CaptionInfo[caption, post_timestamp]

\* one call of parse_show_info on one of the instances
CallParseShowInfo ==
  /\ pc = "parse"
  /\ Len(parse_calls) < MaxCalls
  /\ \E p \in 1..Len(parsers), c \in ParseCaptions, ts \in Timestamps :
       parse_calls' =
         Append(parse_calls,
                [parser |-> p, caption |-> c, post_timestamp |-> ts,
                 info |-> ParseOn(parsers[p], c, ts)])
  /\ UNCHANGED <<pc, posts, nickname_map, idx, shows, ocr_calls, files,
                 tesseract_available, text, result, ref_timestamp, now_year,
                 parsers, appVars>>

NextParse == NewYear \/ NewParser \/ CallParseShowInfo

SpecParse == InitParse /\ [][NextParse]_vars

(***************************************************************************)
(* Properties of process_posts                                             *)
(***************************************************************************)
\* posts the loop has finished with
Processed == IF pc \in {"loop", "done"} THEN 1..(idx - 1) ELSE {}

\* what parse_show_info made of the caption of post k
CaptionInfoOf(k) == CaptionInfo[posts[k].caption, posts[k].timestamp]

\* the records emitted for post k, and the OCR calls made for it
RecordsOf(k) == { j \in 1..Len(shows) : shows[j].post_url = k }

CallsOf(k) == { j \in 1..Len(ocr_calls) : ocr_calls[j].post_url = k }

HasImage(k) == posts[k].local_image_path # NoImage

\* what the image text yielded for post k, None when it was not read
ImageValue(k, field) ==
  IF CallsOf(k) = {} THEN None
  ELSE ocr_calls[CHOOSE j \in CallsOf(k) : TRUE].ocr_info[field]

\* fill-only-missing: the caption's value, else the image's, else None
MergedValue(k, field) ==
  IF Truthy(CaptionInfoOf(k)[field]) THEN CaptionInfoOf(k)[field]
  ELSE ImageValue(k, field)

\* C1: every record process_posts emits has a date other than "Unknown" or
\* a location other than "Unknown".
C1_InclusionInvariant ==
  \A j \in 1..Len(shows) :
    shows[j].date # Unknown \/ shows[j].location # Unknown

\* a record without a date was emitted, and an accepted post with neither
\* date nor location was dropped
C1_Witness ==
  /\ pc = "done"
  /\ \E j \in 1..Len(shows) : shows[j].date = Unknown
  /\ \E k \in Processed :
       /\ CaptionInfoOf(k).is_show
       /\ RecordsOf(k) = {}
       /\ ~Truthy(MergedValue(k, "date"))
       /\ ~Truthy(MergedValue(k, "location"))

\* C2: for each of date, location and time, a value extracted from the
\* caption is the value the emitted record carries, whatever the image text
\* yields.
C2_FillOnlyMissing ==
  \A j \in 1..Len(shows) :
    \A field \in {"date", "location", "time"} :
      LET caption_value == CaptionInfoOf(shows[j].post_url)[field]
      IN  Truthy(caption_value) => shows[j][field] = caption_value

\* C3: no OCR call is made for a post whose caption the classifier rejects.
C3_NoOcrForRejected ==
  \A k \in Processed : ~CaptionInfoOf(k).is_show => CallsOf(k) = {}

\* a post with an empty caption and an image, and a post with a rejected
\* non-empty caption and an image, have both been processed
C3_Witness ==
  /\ \E k \in Processed :
       posts[k].caption = EmptyStr /\ HasImage(k) /\ ~CaptionInfoOf(k).is_show
  /\ \E k \in Processed :
       posts[k].caption # EmptyStr /\ HasImage(k) /\ ~CaptionInfoOf(k).is_show

\* C4: at most one OCR call per post; a call is made exactly when the
\* caption is accepted, its date or its location is empty, and the post has
\* an image; the call gets the post's timestamp.
C4_OcrExactlyWhenGap ==
  \A k \in Processed :
    /\ Cardinality(CallsOf(k)) <= 1
    /\ CallsOf(k) # {} <=>
         /\ CaptionInfoOf(k).is_show
         /\ \/ ~Truthy(CaptionInfoOf(k).date)
            \/ ~Truthy(CaptionInfoOf(k).location)
         /\ HasImage(k)
    /\ \A j \in CallsOf(k) : ocr_calls[j].post_timestamp = posts[k].timestamp

\* C5: a post yields a record exactly when its caption is accepted and the
\* merged result has a date or a location.
C5_RecordIffMergedField ==
  \A k \in Processed :
    RecordsOf(k) # {} <=>
      /\ CaptionInfoOf(k).is_show
      /\ \/ Truthy(MergedValue(k, "date"))
         \/ Truthy(MergedValue(k, "location"))

\* C6 as stated: the emitted time is the caption's time, or "Unknown" when
\* the caption has none, whatever the image text contains.
C6_TimeNeverFromImage ==
  \A j \in 1..Len(shows) :
    LET caption_time == CaptionInfoOf(shows[j].post_url).time
    IN  shows[j].time = IF Truthy(caption_time) THEN caption_time ELSE Unknown

\* C6 as amended: the emitted time is the caption's time when the caption
\* has one; otherwise it is the time found in the image text when the image
\* was read and holds one, and "Unknown" otherwise.
C6_TimeFilledOnlyWhenMissing ==
  \A j \in 1..Len(shows) :
    LET k == shows[j].post_url
        caption_time == CaptionInfoOf(k).time
    IN  shows[j].time =
          IF Truthy(caption_time) THEN caption_time
          ELSE IF Truthy(ImageValue(k, "time")) THEN ImageValue(k, "time")
          ELSE Unknown

\* one record took its time from the image, and one kept the caption's time
\* although the image text held another
C6_Witness ==
  /\ \E j \in 1..Len(shows) :
       /\ ~Truthy(CaptionInfoOf(shows[j].post_url).time)
       /\ Truthy(ImageValue(shows[j].post_url, "time"))
       /\ shows[j].time = ImageValue(shows[j].post_url, "time")
  /\ \E j \in 1..Len(shows) :
       /\ Truthy(CaptionInfoOf(shows[j].post_url).time)
       /\ Truthy(ImageValue(shows[j].post_url, "time"))
       /\ ImageValue(shows[j].post_url, "time")
            # CaptionInfoOf(shows[j].post_url).time

\* the case of C7: an accepted caption with a date and a location but no
\* time, on a post with an image
OnlyTimeMissing(k) ==
  /\ CaptionInfoOf(k).is_show
  /\ Truthy(CaptionInfoOf(k).date)
  /\ Truthy(CaptionInfoOf(k).location)
  /\ ~Truthy(CaptionInfoOf(k).time)
  /\ HasImage(k)

\* C7 as stated: when only the time is missing and the post has an image,
\* the image is still read.
C7_OcrWhenOnlyTimeMissing ==
  \A k \in Processed : OnlyTimeMissing(k) => CallsOf(k) # {}

\* C7 as amended: when only the time is missing, the image is read only if
\* the extracted location is the string "Unknown"; otherwise it is not read
\* and the record's time is "Unknown".
C7_NoOcrWhenOnlyTimeMissing ==
  \A k \in Processed :
    OnlyTimeMissing(k) =>
      /\ CallsOf(k) # {} <=> CaptionInfoOf(k).location = Unknown
      /\ CaptionInfoOf(k).location # Unknown =>
           /\ RecordsOf(k) # {}
           /\ \A j \in RecordsOf(k) : shows[j].time = Unknown

\* both cases have been processed
C7_Witness ==
  /\ \E k \in Processed :
       OnlyTimeMissing(k) /\ CaptionInfoOf(k).location # Unknown
  /\ \E k \in Processed :
       OnlyTimeMissing(k) /\ CaptionInfoOf(k).location = Unknown

(***************************************************************************)
(* Properties of is_show_post                                              *)
(***************************************************************************)
\* the keywords that occur in a text
KeywordsIn(txt) ==
  { k \in 1..Len(SHOW_KEYWORDS) : Contains(txt, SHOW_KEYWORDS[k]) }

\* C8: a text that contains at least 2 distinct event keywords, in any
\* letter case, is accepted, with or without a date or time expression.
C8_TwoKeywordsAccepted ==
  pc = "classified" /\ Truthy(text)
    /\ Cardinality(KeywordsIn(ToLower(text))) >= 2 => result = TRUE

\* such a text without any date or time expression has been classified
C8_Witness ==
  /\ pc = "classified"
  /\ Truthy(text)
  /\ Cardinality(KeywordsIn(ToLower(text))) >= 2
  /\ ~has_date(text)
  /\ extract_time(text) = None

\* C9: with fewer than 2 event keywords, the text is accepted exactly when
\* it holds a date-like pattern and one of the event words; empty or absent
\* text is rejected.
C9_DateAndEventWord ==
  pc = "classified" =>
    /\ ~Truthy(text) => result = FALSE
    /\ Truthy(text) /\ Cardinality(KeywordsIn(ToLower(text))) < 2 =>
         (result <=>
            /\ \E p \in 1..Len(DATE_PATTERNS) : FindIter(DATE_PATTERNS[p], text) # <<>>
            /\ \E w \in 1..Len(EVENT_WORDS) :
                 Occurrences(ToLower(text), EVENT_WORDS[w]) > 0)

\* a text with no keyword but a date and an event word has been accepted
C9_Witness ==
  /\ pc = "classified"
  /\ KeywordsIn(ToLower(text)) = {}
  /\ result = TRUE

\* C10 as stated: the count is the number of occurrences of keywords, and
\* a count of at least 2 accepts the text.
C10_OccurrencesAccepted ==
  pc = "classified" /\ Truthy(text) /\ keyword_count_occurrences(text) >= 2
    => result = TRUE

\* C10 as amended: the count is the number of distinct keywords that occur
\* in the lower-cased text; a text without a date pattern is accepted
\* exactly when at least 2 distinct keywords occur in it, so a single
\* keyword occurring twice is not enough.
C10_DistinctKeywordsAccepted ==
  pc = "classified" /\ Truthy(text) /\ ~has_date(text) =>
    (result <=> Cardinality(KeywordsIn(ToLower(text))) >= 2)

\* a text in which one keyword occurs twice has been rejected
C10_Witness ==
  /\ pc = "classified"
  /\ Truthy(text)
  /\ Cardinality(KeywordsIn(ToLower(text))) = 1
  /\ keyword_count_occurrences(text) = 2
  /\ result = FALSE

(***************************************************************************)
(* Properties of extract_date                                              *)
(***************************************************************************)
\* the matches of date pattern p in a text, each with what dateutil makes
\* of it, in the order of the matches
CandidatesOfPattern(txt, p, ts) ==
  LET ms == FindIter(DATE_PATTERNS[p], txt)
  IN  [j \in 1..Len(ms) |->
         [pattern |-> p, parsed |-> date_parser_parse(Group0(txt, ms[j]), ts)]]

\* the candidates of a text, pattern after pattern as DATE_PATTERNS lists
\* them
Candidates(txt, ts) ==
  CandidatesOfPattern(txt, 1, ts) \o CandidatesOfPattern(txt, 2, ts)
    \o CandidatesOfPattern(txt, 3, ts) \o CandidatesOfPattern(txt, 4, ts)
    \o CandidatesOfPattern(txt, 5, ts) \o CandidatesOfPattern(txt, 6, ts)

\* by how many days the date d lies before the date of ts
DaysBefore(d, ts) == Ordinal(ts) - Ordinal(d)

\* the candidates that parse to a date no more than 7 days before ts
InWindow(cs, ts) ==
  { j \in 1..Len(cs) :
      cs[j].parsed # ParseError /\ DaysBefore(cs[j].parsed, ts) <= 7 }

\* a call of extract_date on a text has returned
Extracted == pc = "extracted" /\ Truthy(text)

\* C11: a candidate dated D or later, or D-7 to D-1, is accepted and one
\* dated D-8 or earlier is rejected: the date returned is the first
\* candidate no more than 7 days before the reference date D, and no
\* candidate is returned when all of them are earlier than that.
C11_DateWindow ==
  Extracted =>
    LET cs == Candidates(text, ref_timestamp)
        win == InWindow(cs, ref_timestamp)
    IN  /\ win # {} => result = cs[MinOf(win)].parsed
        /\ \A j \in 1..Len(cs) :
             /\ cs[j].parsed # ParseError
             /\ DaysBefore(cs[j].parsed, ref_timestamp) >= 8
             => result # cs[j].parsed

\* a candidate dated D-8 was passed over and one dated D-7 returned
C11_Witness ==
  /\ Extracted
  /\ LET cs == Candidates(text, ref_timestamp)
     IN  \E i, j \in 1..Len(cs) :
           /\ i < j
           /\ cs[i].parsed # ParseError
           /\ DaysBefore(cs[i].parsed, ref_timestamp) = 8
           /\ cs[j].parsed # ParseError
           /\ DaysBefore(cs[j].parsed, ref_timestamp) = 7
           /\ result = cs[j].parsed

\* the priority the claim gives each date pattern: both month-name forms
\* first, then numeric, weekday + day, on/at/this/next weekday, relative
ClaimedRank(p) ==
  CASE p = 1 -> 1 [] p = 6 -> 1 [] p = 2 -> 2 [] p = 3 -> 3 [] p = 4 -> 4
    [] OTHER -> 5

\* C12: the date returned is an accepted candidate of the highest priority
\* present, month-name dates of either form before numeric dates.
C12_MonthNameFormsFirst ==
  Extracted =>
    LET cs == Candidates(text, ref_timestamp)
        win == InWindow(cs, ref_timestamp)
    IN  win # {} =>
          \E j \in win :
            /\ result = cs[j].parsed
            /\ \A i \in win :
                 ClaimedRank(cs[j].pattern) <= ClaimedRank(cs[i].pattern)

\* C13: when no candidate is accepted, "tonight" or "today" gives the
\* reference date at 20:00, "tomorrow" alone the next day at 20:00, and a
\* text without a relative word gives no date.
C13_RelativeWords ==
  Extracted /\ InWindow(Candidates(text, ref_timestamp), ref_timestamp) = {} =>
    IF Contains(ToLower(text), w_tonight) \/ Contains(ToLower(text), w_today)
      THEN result = [ref_timestamp EXCEPT !.hour = 20]
    ELSE IF Contains(ToLower(text), w_tomorrow)
      THEN /\ result # NoDate
           /\ Ordinal(result) = Ordinal(ref_timestamp) + 1
           /\ result.hour = 20
    ELSE result = NoDate

\* a text with "tomorrow" and a candidate that is too old gave the next day
C13_Witness ==
  /\ Extracted
  /\ Contains(ToLower(text), w_tomorrow)
  /\ \E j \in 1..Len(Candidates(text, ref_timestamp)) :
       /\ Candidates(text, ref_timestamp)[j].parsed # ParseError
       /\ DaysBefore(Candidates(text, ref_timestamp)[j].parsed,
                     ref_timestamp) >= 8
  /\ result # NoDate
  /\ Ordinal(result) = Ordinal(ref_timestamp) + 1

\* C14: extract_date returns a value for every text; a candidate that does
\* not parse or is too old does not stop the search, the accepted candidate
\* that follows it is returned.
C14_SkipsBadCandidates ==
  pc = "extracted" =>
    /\ result # ParseError
    /\ Truthy(text) =>
         LET cs == Candidates(text, ref_timestamp)
             win == InWindow(cs, ref_timestamp)
         IN  \A j \in win :
               (\A i \in 1..(j - 1) : i \notin win) => result = cs[j].parsed

\* a match that does not parse came first and a candidate of a later
\* pattern was returned
C14_Witness ==
  /\ Extracted
  /\ LET cs == Candidates(text, ref_timestamp)
     IN  \E i, j \in 1..Len(cs) :
           /\ i < j
           /\ cs[i].parsed = ParseError
           /\ cs[i].pattern < cs[j].pattern
           /\ result = cs[j].parsed

(***************************************************************************)
(* Further properties of process_posts                                     *)
(***************************************************************************)
\* the three extracted fields of a record
Fields == {"date", "location", "time"}

\* the record process_posts builds for post k from its caption alone
CaptionOnlyRecord(k) ==
  [post_url |-> posts[k].post_url,
   username |-> posts[k].username,
   display_name |-> IF posts[k].username \in DOMAIN nickname_map
                      THEN nickname_map[posts[k].username]
                    ELSE posts[k].username,
   caption |-> posts[k].caption,
   date |-> IF Truthy(CaptionInfoOf(k).date) THEN CaptionInfoOf(k).date
            ELSE Unknown,
   location |-> IF Truthy(CaptionInfoOf(k).location)
                  THEN CaptionInfoOf(k).location ELSE Unknown,
   time |-> IF Truthy(CaptionInfoOf(k).time) THEN CaptionInfoOf(k).time
            ELSE Unknown]

\* C15: the records are in the order of the posts they come from, at most
\* one for each post.
C15_OrderPreserved ==
  /\ \A i, j \in 1..Len(shows) : i < j => shows[i].post_url < shows[j].post_url
  /\ \A k \in Processed : Cardinality(RecordsOf(k)) <= 1
  /\ \A j \in 1..Len(shows) : shows[j].post_url \in Processed

\* two posts have each given a record
C15_Witness == pc = "done" /\ Len(posts) >= 2 /\ Len(shows) >= 2

\* C17: date, location and time of every record are an extracted value or
\* "Unknown", never empty or None.
C17_NoEmptyField ==
  \A j \in 1..Len(shows) :
    \A field \in Fields :
      /\ Truthy(shows[j][field])
      /\ \/ shows[j][field] = Unknown
         \/ shows[j][field] = CaptionInfoOf(shows[j].post_url)[field]
         \/ shows[j][field] = ImageValue(shows[j].post_url, field)

\* a record whose date and time were both defaulted, the image having
\* been read without giving either
C17_Witness ==
  \E j \in 1..Len(shows) :
    /\ shows[j].date = Unknown
    /\ shows[j].time = Unknown
    /\ CallsOf(shows[j].post_url) # {}
    /\ ~Truthy(ImageValue(shows[j].post_url, "date"))

\* C18: display_name is the nickname the map holds for the author, and the
\* author handle when there is no map or no entry; username is the handle.
C18_DisplayName ==
  \A j \in 1..Len(shows) :
    LET author == posts[shows[j].post_url].username
    IN  /\ shows[j].username = author
        /\ shows[j].display_name =
             IF author \in DOMAIN nickname_map THEN nickname_map[author]
             ELSE author

\* under one map, a record shows a nickname and another the handle
C18_Witness ==
  /\ nickname_map # NoNicknames
  /\ \E j \in 1..Len(shows) : shows[j].display_name # shows[j].username
  /\ \E j \in 1..Len(shows) : shows[j].display_name = shows[j].username

\* image text recovery was asked for post k and gave nothing
RecoveryGaveNothing(k) ==
  /\ CallsOf(k) # {}
  /\ \A field \in Fields : ~Truthy(ImageValue(k, field))

\* C19: when image text recovery fails or returns nothing, the post gives
\* the record its caption alone gives (or none, when the caption alone has
\* neither date nor location).
C19_OcrFailureKeepsCaption ==
  \A k \in Processed :
    RecoveryGaveNothing(k) =>
      IF \/ CaptionOnlyRecord(k).date # Unknown
         \/ CaptionOnlyRecord(k).location # Unknown
        THEN /\ RecordsOf(k) # {}
             /\ \A j \in RecordsOf(k) : shows[j] = CaptionOnlyRecord(k)
      ELSE RecordsOf(k) = {}

\* with the engine installed, it raised on one image and read only white
\* space in another; both posts gave the record of their caption
C19_Witness ==
  /\ tesseract_available
  /\ \E k \in Processed :
       /\ RecoveryGaveNothing(k)
       /\ \E j \in CallsOf(k) : ocr_calls[j].raw = OcrFailure
       /\ RecordsOf(k) # {}
  /\ \E k \in Processed :
       /\ RecoveryGaveNothing(k)
       /\ \E j \in CallsOf(k) : ocr_calls[j].raw = <<" ">>
       /\ RecordsOf(k) # {}

\* the posts that carry the URL u, the records and the OCR calls for them
CopiesOf(u) == { k \in 1..Len(posts) : posts[k].post_url = u }

\* the OCR engine read the same text in every reading of the image of u
SameReading(u) ==
  \A i, j \in CallsOf(u) : ocr_calls[i].raw = ocr_calls[j].raw

\* C16: what a post yields depends on the post and the nickname map only:
\* a post met again later in the sequence, its image reading the same,
\* yields what it yielded the first time.
C16_SamePostSameRecord ==
  pc = "done" =>
    \A u \in { posts[k].post_url : k \in 1..Len(posts) } :
      SameReading(u) =>
        /\ Cardinality(RecordsOf(u)) \in {0, Cardinality(CopiesOf(u))}
        /\ \A i, j \in RecordsOf(u) : shows[i] = shows[j]

(***************************************************************************)
(* Properties of parse_show_info                                           *)
(***************************************************************************)
\* C20: two calls of parse_show_info with the same caption and the same
\* reference timestamp return the same result, on whichever instances and
\* whatever was called in between.
C20_Deterministic ==
  \A i, j \in 1..Len(parse_calls) :
    /\ parse_calls[i].caption = parse_calls[j].caption
    /\ parse_calls[i].post_timestamp = parse_calls[j].post_timestamp
    => parse_calls[i].info = parse_calls[j].info

\* the same call was made on two instances built in different years, with
\* a call for another caption between the two
C20_Witness ==
  /\ Len(parse_calls) = 3
  /\ parse_calls[1].caption = parse_calls[3].caption
  /\ parse_calls[1].post_timestamp = parse_calls[3].post_timestamp
  /\ parse_calls[2].caption # parse_calls[1].caption
  /\ parsers[parse_calls[1].parser].current_year
       # parsers[parse_calls[3].parser].current_year
  /\ parse_calls[1].info.is_show
  /\ Truthy(parse_calls[1].info.date)

(***************************************************************************)
(* Temporary image files after process_posts                               *)
(***************************************************************************)
\* the image files the scraper downloaded for the posts of the fetch
ImagesOf(ps) == { ps[k].local_image_path : k \in 1..Len(ps) } \ {NoImage}

\* C24: when process_posts has returned, the temporary image file of every
\* post it iterated over has been removed, for the posts that gave a record
\* as for the posts the classifier rejected or the inclusion filter dropped.
C24_ImagesRemoved ==
  pc = "done" => files \cap ImagesOf(posts) = {}

(***************************************************************************)
(* Direct calls of extract_location on bounded texts                       *)
(***************************************************************************)
f_at_Blue_Hall == Sentence(<<w_at, w_Blue, w_Hall>>)
f_at_Joes == <<"a", "t", " ", "J", "o", "e", "s">>
f_bob == <<"@", "b", "o", "b">>
f_ab == <<"@", "a", "b">>
f_at_the_park == <<"a", "t", " ", "t", "h", "e", " ", "p", "a", "r", "k">>
f_at_A == <<"a", "t", " ", "A", " ", " ", " ">>
\* a handle of two characters and one of a hundred
f_handles == <<"@", "a", "b", " ", "@">> \o [i \in 1..100 |-> "a"]

\* pieces of text that hold a place: one for each location pattern, a
\* lower-case phrase, and candidates that are too short or too long
LocationFragments ==
  { f_at_Blue_Hall, f_at_Joes, f_bob, f_ab, f_at_the_park, f_at_A,
    f_handles, w_tonight }

MaxLocationFragments == 2

RECURSIVE LocationFragmentLists(_)
LocationFragmentLists(n) ==
  IF n = 0 THEN {<<>>}
  ELSE { Append(fs, f) :
           fs \in LocationFragmentLists(n - 1), f \in LocationFragments }

\* None, '' and every text of up to MaxLocationFragments fragments
LocationTexts ==
  {None} \cup
    { Sentence(fs) :
        fs \in UNION { LocationFragmentLists(n) :
                         n \in 0..MaxLocationFragments } }

InitLocation ==
  /\ pc = "locate"
  /\ text \in LocationTexts
  /\ result = None
  /\ posts = <<>>
  /\ nickname_map = NoNicknames
  /\ idx = 0
  /\ shows = <<>>
  /\ ocr_calls = <<>>
  /\ files = {}
  /\ tesseract_available = FALSE
  /\ AppIdle
  /\ NoParserCalls

CallExtractLocation ==
  /\ pc = "locate"
  /\ result' = extract_location(text)
  /\ pc' = "located"
  /\ UNCHANGED <<posts, nickname_map, idx, shows, ocr_calls, files,
                 tesseract_available, text, parserVars, appVars>>

NextLocation == CallExtractLocation

SpecLocation == InitLocation /\ [][NextLocation]_vars

(***************************************************************************)
(* Properties of extract_location                                          *)
(***************************************************************************)
\* the matches of location pattern p in a text from position pos on, in the
\* order of re.finditer, each with its stripped group 1
RECURSIVE LocationCandidatesFrom(_, _, _)
LocationCandidatesFrom(txt, p, pos) ==
  LET Rest(m) ==
        IF m = NoGroup THEN <<>>
        ELSE <<[pattern |-> p,
                location |-> Strip(Slice(txt, m.gstart, m.end))]>>
               \o LocationCandidatesFrom(txt, p, m.end)
  IN  Bind(GroupSearch(location_patterns[p], txt, pos), Rest)

\* the candidates of a text: venue-type pattern, generic at/@ pattern,
\* @handle pattern
LocationCandidates(txt) ==
  LocationCandidatesFrom(txt, 1, 1) \o LocationCandidatesFrom(txt, 2, 1)
    \o LocationCandidatesFrom(txt, 3, 1)

\* the candidates of 3 to 99 characters
Qualifying(cs) ==
  { j \in 1..Len(cs) : Len(cs[j].location) >= 3 /\ Len(cs[j].location) <= 99 }

\* a call of extract_location on a text has returned
Located == pc = "located" /\ Truthy(text)

\* C21: extract_location returns the first trimmed candidate of 3 to 99
\* characters, taking the venue-type pattern, then the generic at/@
\* pattern, then the @handle pattern; shorter and longer candidates are
\* skipped, and nothing is returned when no candidate qualifies.
C21_FirstQualifyingLocation ==
  /\ pc = "located" /\ ~Truthy(text) => result = None
  /\ Located =>
       LET cs == LocationCandidates(text)
           ok == Qualifying(cs)
       IN  IF ok = {} THEN result = None
           ELSE result = cs[MinOf(ok)].location

\* a candidate that is too short and one that is too long were skipped and
\* a later candidate returned
C21_Witness ==
  /\ Located
  /\ LET cs == LocationCandidates(text)
     IN  \E i, j, k \in 1..Len(cs) :
           /\ i < k
           /\ j < k
           /\ Len(cs[i].location) < 3
           /\ Len(cs[j].location) > 99
           /\ result = cs[k].location
           /\ k = MinOf(Qualifying(cs))

\* an upper-case letter
IsUpper(c) == c \in DOMAIN UpperToLower

\* C22: a location that comes from the venue-type pattern or from the generic
\* at/@ pattern starts with an upper-case letter, and one that comes from
\* the generic pattern has 3 to 30 characters; the words after a lower-case
\* "at the ..." are not returned by these two patterns.
C22_CapitalizedPhrase ==
  Located =>
    LET cs == LocationCandidates(text)
        ok == Qualifying(cs)
    IN  ok # {} /\ cs[MinOf(ok)].pattern \in {1, 2} =>
          /\ IsUpper(result[1])
          /\ cs[MinOf(ok)].pattern = 2 =>
               Len(result) >= 3 /\ Len(result) <= 30

(***************************************************************************)
(* Direct calls of extract_time on bounded texts                           *)
(***************************************************************************)
f_7_30_PM == Sentence(<<<<"7", ":", "3", "0">>, w_PM>>)
f_8_30 == <<"8", ":", "3", "0">>
f_doors_at_7 == Sentence(<<w_doors, w_at, <<"7">>>>)
f_Show_9_x == <<"S", "h", "o", "w", " ", "9", " ", "x">>
f_starts_10_15pm ==
  <<"s", "t", "a", "r", "t", "s", " ", "@", " ", "1", "0", ":", "1", "5",
    "p", "m">>
f_19_00h == <<"1", "9", ":", "0", "0", "h">>
f_9pm == <<"9", "p", "m">>

\* pieces of text that hold a time: one for each time pattern, in both
\* letter cases, and some that no pattern matches
TimeFragments ==
  { f_7_30_PM, f_8_30, f_doors_at_7, f_Show_9_x, f_starts_10_15pm, f_19_00h,
    f_9pm, w_tonight }

MaxTimeFragments == 2

RECURSIVE TimeFragmentLists(_)
TimeFragmentLists(n) ==
  IF n = 0 THEN {<<>>}
  ELSE { Append(fs, f) : fs \in TimeFragmentLists(n - 1), f \in TimeFragments }

\* None, '' and every text of up to MaxTimeFragments fragments
TimeTexts ==
  {None} \cup
    { Sentence(fs) :
        fs \in UNION { TimeFragmentLists(n) : n \in 0..MaxTimeFragments } }

InitTime ==
  /\ pc = "time"
  /\ text \in TimeTexts
  /\ result = None
  /\ posts = <<>>
  /\ nickname_map = NoNicknames
  /\ idx = 0
  /\ shows = <<>>
  /\ ocr_calls = <<>>
  /\ files = {}
  /\ tesseract_available = FALSE
  /\ AppIdle
  /\ NoParserCalls

CallExtractTime ==
  /\ pc = "time"
  /\ result' = extract_time(text)
  /\ pc' = "timed"
  /\ UNCHANGED <<posts, nickname_map, idx, shows, ocr_calls, files,
                 tesseract_available, text, parserVars, appVars>>

NextTime == CallExtractTime

SpecTime == InitTime /\ [][NextTime]_vars

(***************************************************************************)
(* Properties of extract_time                                              *)
(***************************************************************************)
\* the matches of each time pattern in a text, in the order of re.finditer
TimeMatches(txt) ==
  [p \in 1..Len(TIME_PATTERNS) |-> FindIter(TIME_PATTERNS[p], txt)]

\* a call of extract_time on a text has returned
Timed == pc = "timed" /\ Truthy(text)

\* C23: extract_time returns the first match of "H:MM AM/PM" when there is
\* one, else the first match of "H:MM", else the first match of the
\* doors/show/starts phrase, wherever the matches lie in the text; what it
\* returns is a piece of the text as written, and it returns nothing when
\* no pattern matches.
C23_TimeByPatternPriority ==
  /\ pc = "timed" /\ ~Truthy(text) => result = None
  /\ Timed =>
       LET ms == TimeMatches(text)
           found == { p \in DOMAIN ms : ms[p] # <<>> }
       IN  IF found = {} THEN result = None
           ELSE /\ result = Strip(Group0(text, ms[MinOf(found)][1]))
                /\ Contains(text, result)

\* a match of a later pattern starts earlier in the text than the match
\* returned
C23_Witness ==
  /\ Timed
  /\ LET ms == TimeMatches(text)
     IN  \E p, q \in DOMAIN ms :
           /\ p < q
           /\ ms[p] # <<>>
           /\ ms[q] # <<>>
           /\ ms[q][1].start < ms[p][1].start
           /\ result = Strip(Group0(text, ms[p][1]))
           /\ result # Strip(Group0(text, ms[q][1]))

(***************************************************************************)
(* links_manager.py  LinksManager                                          *)
(***************************************************************************)
\* str.isalnum() of one character of the model's alphabet
IsAlnum(c) == c \in LowerLetters \cup DOMAIN UpperToLower \cup Digits

\* s.replace(c, '')
Without(s, c) == SelectSeq(s, LAMBDA x : x # c)

\* s.split(c)[0]
BeforeFirst(s, c) ==
  LET at == { i \in 1..Len(s) : s[i] = c }
  IN  IF at = {} THEN s ELSE Slice(s, 1, MinOf(at))

\* needle lies in s at position i
StartsAt(s, i, needle) ==
  /\ i + Len(needle) - 1 <= Len(s)
  /\ \A k \in 1..Len(needle) : s[i + k - 1] = needle[k]

\* instagram\.com/
InstagramCom ==
  <<"i", "n", "s", "t", "a", "g", "r", "a", "m", ".", "c", "o", "m", "/">>

\* [^/?]
IsPathChar(c) == c \notin {"/", "?"}

\* where the longest run of [^/?] that starts at i ends (exclusive)
RECURSIVE PathRunEnd(_, _)
PathRunEnd(s, i) ==
  IF i <= Len(s) /\ IsPathChar(s[i]) THEN PathRunEnd(s, i + 1) ELSE i

\* group 1 of re.search(r'instagram\.com/([^/?]+)', l), or of the same
\* pattern followed by '/' when slash is TRUE; None when there is no match
UrlGroup(l, slash) ==
  LET GroupFrom(g) == Slice(l, g, PathRunEnd(l, g))
      MatchesAt(i) ==
        /\ StartsAt(l, i, InstagramCom)
        /\ LET g == i + Len(InstagramCom)
           IN  /\ PathRunEnd(l, g) > g
               /\ slash => /\ PathRunEnd(l, g) <= Len(l)
                           /\ l[PathRunEnd(l, g)] = "/"
      First(starts) ==
        IF starts = {} THEN None
        ELSE GroupFrom(MinOf(starts) + Len(InstagramCom))
  IN  Bind({ i \in 1..Len(l) : MatchesAt(i) }, First)

\* [a-zA-Z0-9._]
IsNameChar(c) == IsAlnum(c) \/ c \in {".", "_"}

\* group 1 of re.search(r'^([a-zA-Z0-9._]+)$', l); $ also matches before a
\* newline that ends the string
BareGroup(l) ==
  LET body == IF l # <<>> /\ l[Len(l)] = "\n" THEN Slice(l, 1, Len(l)) ELSE l
  IN  IF body # <<>> /\ \A k \in 1..Len(body) : IsNameChar(body[k])
        THEN body
      ELSE None

\* username and username.replace('.', '').replace('_', '').isalnum()
IsUsername(u) ==
  /\ u # <<>>
  /\ LET r == Without(Without(u, "."), "_")
     IN  r # <<>> /\ \A k \in 1..Len(r) : IsAlnum(r[k])

\* LinksManager.extract_username_from_link
extract_username_from_link(link) ==
  LET Extract(l) ==
        LET groups == <<UrlGroup(l, FALSE), UrlGroup(l, TRUE), BareGroup(l)>>
            Name(p) == BeforeFirst(BeforeFirst(groups[p], "/"), "?")
            usable == { p \in 1..Len(groups) :
                          groups[p] # None /\ IsUsername(Name(p)) }
        IN  IF usable = {} THEN None ELSE Name(MinOf(usable))
  IN  Bind(Without(Strip(link), "@"), Extract)

\* the keys of a saved link
k_username == <<"u", "s", "e", "r", "n", "a", "m", "e">>
k_link == <<"l", "i", "n", "k">>
k_nickname == <<"n", "i", "c", "k", "n", "a", "m", "e">>

\* the order in which add_link inserts the keys
LinkKeys == <<k_username, k_link, k_nickname>>

\* dict.get(key)
Get(d, key) == IF key \in DOMAIN d THEN d[key] ELSE None

\* {'username': username, 'link': link, 'nickname': nickname}
LinkDict(username, link, nickname) ==
  (k_username :> username) @@ (k_link :> link) @@ (k_nickname :> nickname)

\* a character no UTF-8 encoder accepts (a lone surrogate such as '\ud83d')
Surrogate == "lone surrogate"

\* json.encoder.py_encode_basestring: the string in quotes, with ", \ and
\* control characters escaped
RECURSIVE JsonEscape(_, _)
JsonEscape(s, i) ==
  IF i > Len(s) THEN <<>>
  ELSE (CASE s[i] = "\"" -> <<"\\", "\"">>
          [] s[i] = "\\" -> <<"\\", "\\">>
          [] s[i] = "\n" -> <<"\\", "n">>
          [] s[i] = "\t" -> <<"\\", "t">>
          [] OTHER -> <<s[i]>>) \o JsonEscape(s, i + 1)

JsonString(s) == <<"\"">> \o JsonEscape(s, 1) \o <<"\"">>

\* the chunks json.dump(d, f, indent=2, ensure_ascii=False) writes for the
\* j-th key of a dict of the list and the keys after it
RECURSIVE MemberChunks(_, _, _)
MemberChunks(d, keys, j) ==
  IF j > Len(keys) THEN <<>>
  ELSE << (IF j > 1 THEN <<",">> ELSE <<>>)
            \o <<"\n", " ", " ", " ", " ">>,
          JsonString(keys[j]), <<":", " ">>, JsonString(d[keys[j]]) >>
         \o MemberChunks(d, keys, j + 1)

\* the chunks written for the k-th dict of the list and the dicts after it
RECURSIVE ItemChunks(_, _)
ItemChunks(ls, k) ==
  IF k > Len(ls) THEN <<>>
  ELSE << (IF k > 1 THEN <<",">> ELSE <<>>) \o <<"\n", " ", " ">>, <<"{">> >>
         \o MemberChunks(ls[k],
                         SelectSeq(LinkKeys, LAMBDA key : key \in DOMAIN ls[k]),
                         1)
         \o << <<"\n", " ", " ">>, <<"}">> >>
         \o ItemChunks(ls, k + 1)

\* the chunks of the whole list
JsonChunks(ls) ==
  IF ls = <<>> THEN << <<"[", "]">> >>
  ELSE << <<"[">> >> \o ItemChunks(ls, 1) \o << <<"\n">>, <<"]">> >>

\* f.write(chunk) on a file opened with encoding='utf-8' raises for a chunk
\* that holds a lone surrogate
IsEncodable(chunk) == \A k \in 1..Len(chunk) : chunk[k] # Surrogate

\* what the file holds when the with block of save_links is left: the chunks
\* written before the first one that cannot be encoded
RECURSIVE WrittenFrom(_, _)
WrittenFrom(chunks, k) ==
  IF k > Len(chunks) \/ ~IsEncodable(chunks[k]) THEN <<>>
  ELSE chunks[k] \o WrittenFrom(chunks, k + 1)

\* LinksManager.save_links, on a file that can be opened for writing: the
\* exception of a chunk that cannot be encoded is printed and swallowed
save_links(ls) == Bind(JsonChunks(ls), LAMBDA cs : WrittenFrom(cs, 1))

\* a JSON value could not be read (json.load raises at that point)
NoParse == [ok |-> FALSE, value |-> <<>>, next |-> 0]

\* the position of the first character at i or later that is no JSON
\* whitespace
RECURSIVE SkipWs(_, _)
SkipWs(s, i) ==
  IF i <= Len(s) /\ s[i] \in {" ", "\n", "\t", "\r"} THEN SkipWs(s, i + 1)
  ELSE i

\* the character at position i, or '' past the end
CharAt(s, i) == IF i >= 1 /\ i <= Len(s) THEN s[i] ELSE ""

\* the rest of a JSON string whose opening quote was read, from position j
RECURSIVE ScanString(_, _, _)
ScanString(s, j, acc) ==
  IF j > Len(s) THEN NoParse
  ELSE IF s[j] = "\"" THEN [ok |-> TRUE, value |-> acc, next |-> j + 1]
  ELSE IF s[j] = "\\"
    THEN (CASE CharAt(s, j + 1) = "\"" ->
                 ScanString(s, j + 2, Append(acc, "\""))
            [] CharAt(s, j + 1) = "\\" ->
                 ScanString(s, j + 2, Append(acc, "\\"))
            [] CharAt(s, j + 1) = "n" ->
                 ScanString(s, j + 2, Append(acc, "\n"))
            [] CharAt(s, j + 1) = "t" ->
                 ScanString(s, j + 2, Append(acc, "\t"))
            [] OTHER -> NoParse)
  ELSE IF s[j] \in {"\n", "\t", "\r"} THEN NoParse
  ELSE ScanString(s, j + 1, Append(acc, s[j]))

\* a JSON string at position i
ParseString(s, i) ==
  IF CharAt(s, i) = "\"" THEN ScanString(s, i + 1, <<>>) ELSE NoParse

\* the members of a JSON object from position i (a key is expected there),
\* added to d; a key read again replaces the value read before
RECURSIVE ParseMembers(_, _, _)
ParseMembers(s, i, d) ==
  LET AfterValue(key, v) ==
        IF ~v.ok THEN NoParse
        ELSE LET e == SkipWs(s, v.next)
                 dd == (key :> v.value) @@ d
             IN  IF CharAt(s, e) = ","
                   THEN ParseMembers(s, SkipWs(s, e + 1), dd)
                 ELSE IF CharAt(s, e) = "}"
                   THEN [ok |-> TRUE, value |-> dd, next |-> e + 1]
                 ELSE NoParse
      AfterKey(k) ==
        IF ~k.ok THEN NoParse
        ELSE LET c == SkipWs(s, k.next)
             IN  IF CharAt(s, c) # ":" THEN NoParse
                 ELSE Bind(ParseString(s, SkipWs(s, c + 1)),
                           LAMBDA v : AfterValue(k.value, v))
  IN  Bind(ParseString(s, i), AfterKey)

\* a JSON object with string values at position i
ParseObject(s, i) ==
  IF CharAt(s, i) # "{" THEN NoParse
  ELSE LET m == SkipWs(s, i + 1)
       IN  IF CharAt(s, m) = "}"
             THEN [ok |-> TRUE, value |-> <<>>, next |-> m + 1]
           ELSE ParseMembers(s, m, <<>>)

\* the elements of a JSON array from position i (an object is expected
\* there), appended to acc
RECURSIVE ParseElements(_, _, _)
ParseElements(s, i, acc) ==
  LET AfterObject(o) ==
        IF ~o.ok THEN NoParse
        ELSE LET e == SkipWs(s, o.next)
             IN  IF CharAt(s, e) = ","
                   THEN ParseElements(s, SkipWs(s, e + 1),
                                      Append(acc, o.value))
                 ELSE IF CharAt(s, e) = "]"
                   THEN [ok |-> TRUE, value |-> Append(acc, o.value),
                         next |-> e + 1]
                 ELSE NoParse
  IN  Bind(ParseObject(s, i), AfterObject)

\* json.load(f) of a file that holds a list of dicts of strings; ok is FALSE
\* when it raises
json_load(s) ==
  LET Whole(a) ==
        IF a.ok /\ SkipWs(s, a.next) = Len(s) + 1 THEN a ELSE NoParse
      start == SkipWs(s, 1)
  IN  IF CharAt(s, start) # "[" THEN NoParse
      ELSE IF CharAt(s, SkipWs(s, start + 1)) = "]"
        THEN Whole([ok |-> TRUE, value |-> <<>>,
                    next |-> SkipWs(s, start + 1) + 1])
      ELSE Bind(ParseElements(s, SkipWs(s, start + 1), <<>>), Whole)

\* LinksManager.load_links
load_links(file) ==
  IF file = NoFile THEN <<>>
  ELSE LET Loaded(v) == IF v.ok THEN v.value ELSE <<>>
       IN  Bind(json_load(file), Loaded)

\* some saved link has this username
IsSaved(ls, username) ==
  \E k \in 1..Len(ls) : Get(ls[k], k_username) = username

\* nickname.strip() without the fallback to the username
StoredNickname_AsGiven(nickname, username) == Strip(nickname)

\* nickname.strip() or username
StoredNickname(nickname, username) ==
  IF Strip(nickname) # <<>> THEN Strip(nickname) ELSE username

\* what a method leaves behind: the list, what it returned (the success
\* flag of add_link's pair), and whether it called save_links
Outcome(ls, returned, saves) ==
  [links |-> ls, returned |-> returned, saves |-> saves]

\* LinksManager.add_link
add_link(ls, link, nickname) ==
  LET Added(username) ==
        IF ~Truthy(username) THEN Outcome(ls, FALSE, FALSE)
        ELSE IF IsSaved(ls, username) THEN Outcome(ls, FALSE, FALSE)
        ELSE Outcome(Append(ls, LinkDict(username, link,
                                         StoredNickname(nickname, username))),
                     TRUE, TRUE)
  IN  Bind(extract_username_from_link(link), Added)

\* LinksManager.update_link: the first link with the username gets the
\* nickname
update_link(ls, username, nickname) ==
  LET hits == { k \in 1..Len(ls) : Get(ls[k], k_username) = username }
  IN  IF hits = {} THEN Outcome(ls, FALSE, FALSE)
      ELSE Outcome([ls EXCEPT ![MinOf(hits)] =
                      (k_nickname :> StoredNickname(nickname, username)) @@ @],
                   TRUE, TRUE)

\* variant of delete_link that saves whether or not a link was removed
delete_link_SavesAlways(ls, username) ==
  LET kept == SelectSeq(ls, LAMBDA d : Get(d, k_username) # username)
  IN  Outcome(kept, Len(kept) < Len(ls), TRUE)

\* LinksManager.delete_link
delete_link(ls, username) ==
  LET kept == SelectSeq(ls, LAMBDA d : Get(d, k_username) # username)
  IN  IF Len(kept) < Len(ls) THEN Outcome(kept, TRUE, TRUE)
      ELSE Outcome(kept, FALSE, FALSE)

\* link arguments: a bare username, the same with @ and blanks, a profile
\* URL, and text that is no link
LinkInputs ==
  { <<"b", "o", "b">>,
    <<" ", "@", "b", "o", "b">>,
    InstagramCom \o <<"a", "m", "y", "/">>,
    <<"a", " ", "b">> }

\* nickname arguments: a name, a blank one, one with a quote, one that
\* cannot be encoded
NicknameInputs == { <<"B">>, <<" ">>, <<"\"">>, <<Surrogate>> }

\* username arguments of update_link and delete_link
UsernameInputs == { <<"b", "o", "b">>, <<"a", "m", "y">>, <<"z", "e", "d">> }

\* a LinksManager on a storage file that does not exist yet
InitLinks ==
  /\ pc = "links"
  /\ links = load_links(NoFile)
  /\ storage = NoFile
  /\ last_call = NoCall
  /\ posts = <<>>
  /\ nickname_map = NoNicknames
  /\ idx = 0
  /\ shows = <<>>
  /\ ocr_calls = <<>>
  /\ files = {}
  /\ tesseract_available = FALSE
  /\ text = None
  /\ result = FALSE
  /\ NoParserCalls
  /\ profile_feed = <<>>
  /\ max_posts = 0
  /\ attempt = 0
  /\ cursor = 0
  /\ attempt_log = <<>>
  /\ current_date = NoCalendarDate
  /\ nav_log = <<>>

\* the state a method call leaves: the list, the file when save_links was
\* called, and the record of the call
Called(op, username, nickname, out) ==
  /\ links' = out.links
  /\ storage' = IF out.saves THEN save_links(out.links) ELSE storage
  /\ last_call' = [op |-> op, username |-> username, nickname |-> nickname,
                   returned |-> out.returned, saved |-> out.saves]

\* the variables no LinksManager method touches
notLinksVars ==
  <<pc, posts, nickname_map, idx, shows, ocr_calls, files,
    tesseract_available, text, result, parserVars, scraperVars, calendarVars>>

CallAddLink ==
  /\ pc = "links"
  /\ \E link \in LinkInputs, nickname \in NicknameInputs :
       Called("add_link", extract_username_from_link(link), nickname,
              add_link(links, link, nickname))
  /\ UNCHANGED notLinksVars

CallUpdateLink ==
  /\ pc = "links"
  /\ \E username \in UsernameInputs, nickname \in NicknameInputs :
       Called("update_link", username, nickname,
              update_link(links, username, nickname))
  /\ UNCHANGED notLinksVars

CallDeleteLink ==
  /\ pc = "links"
  /\ \E username \in UsernameInputs :
       Called("delete_link", username, None, delete_link(links, username))
  /\ UNCHANGED notLinksVars

\* LinksManager(storage_file) on the same file: self.links = load_links()
NewLinksManager ==
  /\ pc = "links"
  /\ links' = load_links(storage)
  /\ last_call' = NoCall
  /\ UNCHANGED <<storage, notLinksVars>>

NextLinks ==
  CallAddLink \/ CallUpdateLink \/ CallDeleteLink \/ NewLinksManager

SpecLinks == InitLinks /\ [][NextLinks]_vars

(***************************************************************************)
(* Properties of the LinksManager                                          *)
(***************************************************************************)
\* the last call was one of the three methods that change the list
MethodCalled == last_call.op \in {"add_link", "update_link", "delete_link"}

\* the nickname of the saved link with this username
NicknameOf(ls, username) ==
  Get(ls[MinOf({ k \in 1..Len(ls) : Get(ls[k], k_username) = username })],
      k_nickname)

\* C25: after any sequence of add_link, update_link and delete_link calls on
\* a list that started empty, no two saved links have the same username and
\* every saved link has a non-empty nickname, which is the username when
\* the nickname given was blank.
C25_UniqueUsernames ==
  pc = "links" =>
    /\ \A i, j \in 1..Len(links) :
         i # j => Get(links[i], k_username) # Get(links[j], k_username)
    /\ \A k \in 1..Len(links) :
         /\ Truthy(Get(links[k], k_username))
         /\ Truthy(Get(links[k], k_nickname))
    /\ /\ last_call.op \in {"add_link", "update_link"}
       /\ last_call.returned
       /\ Strip(last_call.nickname) = <<>>
       => NicknameOf(links, last_call.username) = last_call.username

\* two links are saved, an add_link for a saved username was refused and
\* left them alone, and one of them got its username for a blank nickname
C25_Witness ==
  /\ pc = "links"
  /\ Len(links) = 2
  /\ last_call.op = "add_link"
  /\ ~last_call.returned
  /\ IsSaved(links, last_call.username)
  /\ \E k \in 1..Len(links) :
       Get(links[k], k_nickname) = Get(links[k], k_username)

\* C26: add_link with an invalid link or a username that is already saved
\* returns False with its message, update_link and delete_link return False
\* for a username that is not saved, and a call that returns False leaves
\* the list as it was and does not write the storage file.
C26_FailedCallChangesNothing ==
  [][LET call == last_call'
     IN  /\ /\ call.op = "add_link"
            /\ ~Truthy(call.username) \/ IsSaved(links, call.username)
            => ~call.returned
         /\ /\ call.op \in {"update_link", "delete_link"}
            /\ ~IsSaved(links, call.username)
            => ~call.returned
         /\ /\ call.op \in {"add_link", "update_link", "delete_link"}
            /\ ~call.returned
            => /\ links' = links
               /\ storage' = storage
               /\ ~call.saved]_vars

\* with a link saved, a delete_link for another username returned False
C26_Witness ==
  /\ pc = "links"
  /\ last_call.op = "delete_link"
  /\ ~last_call.returned
  /\ ~last_call.saved
  /\ links # <<>>
  /\ storage # NoFile
  /\ load_links(storage) = links

\* C27: after every add_link, update_link or delete_link call that returns
\* success, load_links reads from the storage file the list held in memory,
\* so that a new LinksManager on the file has the same links.
C27_SavedEqualsMemory ==
  pc = "links" /\ MethodCalled /\ last_call.returned =>
    load_links(storage) = links

(***************************************************************************)
(* instagram_scraper.py  InstagramScraper.get_profile_posts                *)
(* (days_back is None: no cutoff date)                                     *)
(***************************************************************************)
max_retries == 3

\* how a call to Instagram can fail: ConnectionException with and without a
\* rate-limit message, ProfileNotExistsException, LoginRequiredException,
\* another exception with a rate-limit message, any other exception
ErrorKinds ==
  { "rate_limit", "connection", "profile_missing", "login_required",
    "other_rate_limit", "other" }

\* variant of the except clauses in which every error is tried again
Retries_AnyError(kind, n) == n < max_retries - 1

\* the except clauses: TRUE for "continue", FALSE for "break", in attempt n
Retries(kind, n) ==
  CASE kind \in {"profile_missing", "login_required"} -> FALSE
    [] kind = "rate_limit" -> TRUE
    [] kind = "connection" -> n < max_retries - 1
    [] kind = "other_rate_limit" -> n < max_retries - 1
    [] OTHER -> FALSE

MaxFeed == 2

\* the posts of a profile as profile.get_posts() yields them, newest first
RECURSIVE FeedsOfLen(_)
FeedsOfLen(n) ==
  IF n = 0 THEN {<<>>}
  ELSE { Append(f, [shortcode |-> n, typename |-> t]) :
           f \in FeedsOfLen(n - 1), t \in {"GraphImage", "GraphVideo"} }

Feeds == UNION { FeedsOfLen(n) : n \in 0..MaxFeed }

\* post_data of a post; downloaded tells whether the image request gave
\* status 200
PostData(post, downloaded) ==
  [shortcode |-> post.shortcode,
   post_url |-> post.shortcode,
   image_url |-> IF post.typename = "GraphImage" THEN post.shortcode
                 ELSE NoImage,
   local_image_path |->
     IF post.typename = "GraphImage" /\ downloaded
       THEN ImagePath(post.shortcode)
     ELSE NoImage]

\* no call of get_profile_posts has been made
InitFetch ==
  /\ pc = "fetch"
  /\ posts = <<>>
  /\ files = {}
  /\ profile_feed = <<>>
  /\ max_posts = 0
  /\ attempt = 0
  /\ cursor = 0
  /\ attempt_log = <<>>
  /\ nickname_map = NoNicknames
  /\ idx = 0
  /\ shows = <<>>
  /\ ocr_calls = <<>>
  /\ tesseract_available = FALSE
  /\ text = None
  /\ result = FALSE
  /\ NoParserCalls
  /\ links = <<>>
  /\ storage = NoFile
  /\ last_call = NoCall
  /\ current_date = NoCalendarDate
  /\ nav_log = <<>>

\* the variables get_profile_posts does not touch
notScraperVars ==
  <<nickname_map, idx, shows, ocr_calls, tesseract_available, text, result,
    parserVars, linksVars, calendarVars>>

\* get_profile_posts(username, max_posts): posts = [], first attempt
CallGetProfilePosts ==
  /\ pc = "fetch"
  /\ \E feed \in Feeds, n \in 1..MaxFeed :
       /\ profile_feed' = feed
       /\ max_posts' = n
  /\ posts' = <<>>
  /\ attempt' = 0
  /\ cursor' = 0
  /\ attempt_log' = <<>>
  /\ pc' = "try"
  /\ UNCHANGED <<files, notScraperVars>>

\* an exception of this kind reaches the except clauses: the attempt is
\* over, and the loop goes on to the next attempt, runs out of attempts, or
\* is left
Raised(kind) ==
  /\ attempt_log' = Append(attempt_log, kind)
  /\ IF Retries(kind, attempt) /\ attempt + 1 < max_retries
       THEN pc' = "try" /\ attempt' = attempt + 1
     ELSE pc' = "return" /\ attempt' = attempt
  /\ UNCHANGED <<posts, files, cursor>>

\* Profile.from_username and the start of profile.get_posts()
LookUpProfile ==
  /\ pc = "try"
  /\ \/ /\ pc' = "iterate"
        /\ cursor' = 1
        /\ UNCHANGED <<posts, files, attempt, attempt_log>>
     \/ \E kind \in ErrorKinds : Raised(kind)
  /\ UNCHANGED <<profile_feed, max_posts, notScraperVars>>

\* one round of "for post in profile.get_posts()": the next post is
\* collected, or the loop ends and the attempt has succeeded, or a request
\* raises
NextPost ==
  /\ pc = "iterate"
  /\ \/ /\ cursor <= Len(profile_feed)
        /\ Len(posts) < max_posts
        /\ \E downloaded \in BOOLEAN :
             LET post_data == PostData(profile_feed[cursor], downloaded)
             IN  /\ posts' = Append(posts, post_data)
                 /\ files' = files \cup ({post_data.local_image_path}
                                           \ {NoImage})
        /\ cursor' = cursor + 1
        /\ UNCHANGED <<pc, attempt, attempt_log>>
     \/ /\ cursor > Len(profile_feed) \/ Len(posts) >= max_posts
        /\ attempt_log' = Append(attempt_log, "ok")
        /\ pc' = "return"
        /\ UNCHANGED <<posts, files, cursor, attempt>>
     \/ \E kind \in ErrorKinds : Raised(kind)
  /\ UNCHANGED <<profile_feed, max_posts, notScraperVars>>

\* return posts
ReturnPosts ==
  /\ pc = "return"
  /\ pc' = "returned"
  /\ UNCHANGED <<posts, files, scraperVars, notScraperVars>>

NextFetch == CallGetProfilePosts \/ LookUpProfile \/ NextPost \/ ReturnPosts

SpecFetch == InitFetch /\ [][NextFetch]_vars

\* the interpreter keeps running the call, and every request to Instagram
\* returns or raises
SpecFetchLive == SpecFetch /\ WF_vars(NextFetch)

(***************************************************************************)
(* Properties of get_profile_posts                                         *)
(***************************************************************************)
\* C28: get_profile_posts returns at most max_posts posts and no post
\* twice, whatever attempts failed, also when an error was raised after
\* posts of that attempt had been collected.
C28_NoDuplicatePosts ==
  pc = "returned" =>
    /\ Len(posts) <= max_posts
    /\ \A i, j \in 1..Len(posts) :
         i # j => posts[i].shortcode # posts[j].shortcode

\* the errors after which the loop may try again
RetryableKinds == {"rate_limit", "connection", "other_rate_limit"}

\* C29: get_profile_posts makes at most 3 attempts, makes another attempt
\* only after a connection or rate-limit error, so that it stops at the
\* first attempt that succeeds or fails otherwise, and it always comes to
\* return its list.
C29_BoundedRetries ==
  /\ [](/\ Len(attempt_log) <= 3
        /\ \A k \in 1..(Len(attempt_log) - 1) :
             attempt_log[k] \in RetryableKinds)
  /\ <>(pc = "returned")

\* three attempts ended in connection and rate-limit errors, posts had been
\* collected before one of them, and the list was returned
C29_Witness ==
  /\ pc = "returned"
  /\ Len(attempt_log) = 3
  /\ attempt_log[3] \in RetryableKinds
  /\ posts # <<>>

(***************************************************************************)
(* calendar_ui.py  CalendarUI month navigation                             *)
(***************************************************************************)
\* datetime.replace raises "day is out of range for month"
ValueError == [year |-> -1, month |-> -1, day |-> -1]

\* dt.replace(year=y, month=m)
Replace(dt, y, m) ==
  IF dt.day > DaysInMonth(y, m) THEN ValueError
  ELSE [dt EXCEPT !.year = y, !.month = m]

\* the assignment of CalendarUI.next_month
next_month(dt) ==
  IF dt.month = 12 THEN Replace(dt, dt.year + 1, 1)
  ELSE Replace(dt, dt.year, dt.month + 1)

\* the assignment of CalendarUI.prev_month
prev_month(dt) ==
  IF dt.month = 1 THEN Replace(dt, dt.year - 1, 12)
  ELSE Replace(dt, dt.year, dt.month - 1)

\* how many years before and after the year of the clock the calendar is
\* followed
CalendarYears == 1

\* days of the month the clock is read on
ClockDays == {1, 15, 28, 29, 30, 31}

\* datetime.now(): a date of the year of the clock
Todays ==
  { dt \in [year : {ClockYear}, month : 1..12, day : ClockDays] :
      dt.day <= DaysInMonth(dt.year, dt.month) }

\* CalendarUI(parent): self.current_date = datetime.now()
InitCalendar ==
  /\ pc = "calendar"
  /\ current_date \in Todays
  /\ nav_log = <<>>
  /\ posts = <<>>
  /\ nickname_map = NoNicknames
  /\ idx = 0
  /\ shows = <<>>
  /\ ocr_calls = <<>>
  /\ files = {}
  /\ tesseract_available = FALSE
  /\ text = None
  /\ result = FALSE
  /\ NoParserCalls
  /\ links = <<>>
  /\ storage = NoFile
  /\ last_call = NoCall
  /\ profile_feed = <<>>
  /\ max_posts = 0
  /\ attempt = 0
  /\ cursor = 0
  /\ attempt_log = <<>>

\* the month a date lies in
MonthOf(dt) == [year |-> dt.year, month |-> dt.month]

\* a button callback has run: when the assignment raised, current_date is
\* as before and update_calendar was not called; the log keeps the last
\* two callbacks
Navigated(op, to) ==
  /\ current_date' = IF to = ValueError THEN current_date ELSE to
  /\ nav_log' =
       LET entry == [op |-> op, from |-> MonthOf(current_date),
                     to |-> MonthOf(current_date'),
                     failed |-> to = ValueError]
       IN  IF nav_log = <<>> THEN <<entry>>
           ELSE <<nav_log[Len(nav_log)], entry>>

\* the variables the CalendarUI does not touch
notCalendarVars ==
  <<pc, posts, nickname_map, idx, shows, ocr_calls, files,
    tesseract_available, text, result, parserVars, linksVars, scraperVars>>

NextMonth ==
  /\ pc = "calendar"
  /\ current_date.month = 12 => current_date.year < ClockYear + CalendarYears
  /\ Navigated("next_month", next_month(current_date))
  /\ UNCHANGED notCalendarVars

PrevMonth ==
  /\ pc = "calendar"
  /\ current_date.month = 1 => current_date.year > ClockYear - CalendarYears
  /\ Navigated("prev_month", prev_month(current_date))
  /\ UNCHANGED notCalendarVars

\* self.current_date = datetime.now()
GoToToday ==
  /\ pc = "calendar"
  /\ \E now \in Todays : Navigated("go_to_today", now)
  /\ UNCHANGED notCalendarVars

NextCalendar == NextMonth \/ PrevMonth \/ GoToToday

SpecCalendar == InitCalendar /\ [][NextCalendar]_vars

(***************************************************************************)
(* Properties of the calendar navigation                                   *)
(***************************************************************************)
\* months counted from year 0
MonthIndex(ym) == ym.year * 12 + ym.month

\* C30: whatever the current date, next_month shows the month after the one
\* shown and prev_month the month before it, across the turn of the year,
\* neither of them fails, and next_month followed by prev_month shows the
\* month and year shown at first.
C30_MonthNavigation ==
  pc = "calendar" =>
    /\ \A k \in 1..Len(nav_log) :
         /\ nav_log[k].op = "next_month" =>
              /\ ~nav_log[k].failed
              /\ MonthIndex(nav_log[k].to) = MonthIndex(nav_log[k].from) + 1
         /\ nav_log[k].op = "prev_month" =>
              /\ ~nav_log[k].failed
              /\ MonthIndex(nav_log[k].to) = MonthIndex(nav_log[k].from) - 1
    /\ /\ Len(nav_log) = 2
       /\ nav_log[1].op = "next_month"
       /\ nav_log[2].op = "prev_month"
       => nav_log[2].to = nav_log[1].from

====
